---------------------------- MODULE Spec2Model ----------------------------
(***************************************************************************)
(* A model of the Clifs-8track multitrack recorder: the audio engine       *)
(* (src/audio_engine.py), the track manager (src/track_manager.py) and the *)
(* transport handlers of the control surface (src/ui_controller.py).       *)
(*                                                                         *)
(* Two threads share the engine: the audio thread, which runs              *)
(* AudioEngine.audio_callback once per buffer, and the control (Tk main)   *)
(* thread, which runs the handlers.  Both are modelled as sequential       *)
(* processes with a program counter; a step is a piece of code between two *)
(* accesses to shared state that the other thread can observe.             *)
(*                                                                         *)
(* Reals (samples, volumes, gains) are fixed-point numbers: the value x is *)
(* the integer x * ONE, and products are rounded toward zero.              *)
(***************************************************************************)
EXTENDS Integers, Sequences, FiniteSets, TLC

(***************************************************************************)
(* Bounds of the model.                                                    *)
(***************************************************************************)
\* Number of track slots (the program has 8: range(1, 9)).
NumTracks == 2
\* Samples per callback (the program's buffer_size is 256).
Frames == 2
\* The sample rate the model runs at (the program's is 44100): it scales
\* samples_per_beat and the click lengths.
SampleRate == 20
\* Fixed-point unit: the integer that stands for 1.0.
ONE == 1000
\* Playback is followed up to this cursor position in the transport models.
MaxPos == 2
\* Longest track buffer enumerated in the mixing model.
MaxTrackLen == 3
\* A playback is followed for this many callbacks in the mixing model.
MaxMixCallbacks == 2
\* Playback is followed up to this cursor position in the metronome model.
MaxMetroPos == 52
\* Longest click waveform enumerated in the metronome model.
MaxWaveLen == 3
\* Trial latencies enumerated for measure_latency range over -1..MaxLatency.
MaxLatency == 3
\* Longest recording followed in the recording model, in callbacks.
MaxRecCallbacks == 2
\* The wall clock when the program starts, and the last second followed, in
\* seconds since the epoch (time.time() at start is far past the hold time).
StartTime == 2
MaxTime == 5

Tracks == 1..NumTracks
\* Python's None for a track number (track numbers are 1..8).
None == 0

FxTypes == {"none", "compressor", "studio", "wide_hall"}

(***************************************************************************)
(* Fixed-point and sequence helpers.                                       *)
(***************************************************************************)
Abs(x) == IF x < 0 THEN -x ELSE x
Min(a, b) == IF a < b THEN a ELSE b
Max(a, b) == IF a > b THEN a ELSE b

\* a / b rounded toward zero, b > 0.
DivT(a, b) == IF a >= 0 THEN a \div b ELSE -((-a) \div b)
\* The product of two fixed-point numbers.
Mul(a, b) == DivT(a * b, ONE)

Zeros(n) == [i \in 1..n |-> 0]

RECURSIVE SumSeq(_)
SumSeq(s) == IF s = <<>> THEN 0 ELSE Head(s) + SumSeq(Tail(s))

\* numpy slicing a[lo:hi] (0-based, clamped to the array).
Slice(a, lo, hi) == SubSeq(a, lo + 1, Min(hi, Len(a)))


(***************************************************************************)
(* SimpleCompressor (src/audio_engine.py 15-59).  A compressor is the      *)
(* record of its fields.  The two smoothing coefficients depend only on    *)
(* the constructor's defaults (attack 5 ms, release 50 ms at 44100 Hz,     *)
(* which set_track_fx never overrides): 1 - attack_coeff = 0.004525 and    *)
(* 1 - release_coeff = 0.000453, kept in millionths.                       *)
(***************************************************************************)
AttackStepPpm == 4525
ReleaseStepPpm == 453

SimpleCompressor(threshold, ratio) ==
    [threshold |-> threshold, ratio |-> ratio, envelope |-> 0]

\* The envelope follower's update for one input sample.
CompressorEnvelope(envelope, sample) ==
    LET target_envelope == Abs(sample)
    IN  IF target_envelope > envelope
        THEN envelope + DivT((target_envelope - envelope) * AttackStepPpm, 1000000)
        ELSE envelope + DivT((target_envelope - envelope) * ReleaseStepPpm, 1000000)

\* No gain reduction at any envelope.
CompressorGainUnity(c, envelope) == ONE

\* The gain reduction for an envelope value.  compressed_amount and
\* target_level are kept as fractions over the ratio, so that the quotient
\* target_level / envelope is rounded once.
CompressorGain(c, envelope) ==
    IF envelope > c.threshold
    THEN LET over_amount == envelope - c.threshold
             target_level_times_ratio == c.threshold * c.ratio + over_amount
         IN  IF envelope > 0
             THEN (target_level_times_ratio * ONE) \div (c.ratio * envelope)
             ELSE ONE
    ELSE ONE

MakeupGain(c) == ONE + Mul(ONE - (ONE \div c.ratio), c.threshold)

\* SimpleCompressor.process: the output samples and the compressor after them.
RECURSIVE CompressorProcessFrom(_, _, _)
CompressorProcessFrom(c, audio, out) ==
    IF audio = <<>> THEN [out |-> out, state |-> c]
    ELSE LET env == CompressorEnvelope(c.envelope, Head(audio))
             c2 == [c EXCEPT !.envelope = env]
             y == Mul(Mul(Head(audio), CompressorGain(c2, env)), MakeupGain(c2))
         IN  CompressorProcessFrom(c2, Tail(audio), Append(out, y))

CompressorProcess(c, audio) == CompressorProcessFrom(c, audio, <<>>)

(***************************************************************************)
(* SimpleReverb (src/audio_engine.py 61-118).  A delay line is its length, *)
(* its write index, its feedback gain and the slots written so far: the    *)
(* buffer starts as zeros and is written in index order, so `data` holds   *)
(* slots 0..Len(data)-1 and every later slot is still 0.                   *)
(***************************************************************************)
FxSampleRate == 44100
LargeHallDelaysMs == <<89, 110, 127, 135, 220, 254>>
SmallRoomDelaysMs == <<15, 23, 35, 47>>
FeedbackGainsPct == <<70, 60, 50, 40>>
DefaultDamping == ONE \div 2

\* Python's zip: as many pairs as the shorter sequence has.
ZipLen(a, b) == Min(Len(a), Len(b))

SimpleReverb(room_size, damping, wet) ==
    LET large == room_size > (8 * ONE) \div 10
        delay_times == IF large THEN LargeHallDelaysMs ELSE SmallRoomDelaysMs
        wet2 == IF large THEN (4 * ONE) \div 10 ELSE (5 * ONE) \div 10
    IN  [wet |-> wet2,
         dry |-> ONE - wet2,
         delay_lines |->
            [k \in 1..ZipLen(delay_times, FeedbackGainsPct) |->
                [len |-> (delay_times[k] * FxSampleRate) \div 1000,
                 data |-> <<>>,
                 index |-> 0,
                 feedback |-> Mul((FeedbackGainsPct[k] * ONE) \div 100, ONE - damping)]]]

DelayRead(line) ==
    IF line.index < Len(line.data) THEN line.data[line.index + 1] ELSE 0

DelayWrite(line, v) ==
    [line EXCEPT
        !.data = IF line.index < Len(line.data)
                 THEN [line.data EXCEPT ![line.index + 1] = v]
                 ELSE Append(line.data, v),
        !.index = (line.index + 1) % line.len]

\* One input sample through every delay line.
ReverbStep(r, x) ==
    LET wet_sum == SumSeq([k \in 1..Len(r.delay_lines) |-> DelayRead(r.delay_lines[k])])
        lines == [k \in 1..Len(r.delay_lines) |->
                    DelayWrite(r.delay_lines[k],
                               x + Mul(DelayRead(r.delay_lines[k]),
                                       r.delay_lines[k].feedback))]
    IN  [y |-> Mul(x, r.dry) + Mul(Mul(wet_sum, r.wet), ONE \div 4),
         state |-> [r EXCEPT !.delay_lines = lines]]

RECURSIVE ReverbProcessFrom(_, _, _)
ReverbProcessFrom(r, audio, out) ==
    IF audio = <<>> THEN [out |-> out, state |-> r]
    ELSE LET st == ReverbStep(r, Head(audio))
         IN  ReverbProcessFrom(st.state, Tail(audio), Append(out, st.y))

ReverbProcess(r, audio) == ReverbProcessFrom(r, audio, <<>>)

(***************************************************************************)
(* The FX chain of a track (src/audio_engine.py 221-263).  The processors  *)
(* of a track are a function from a subset of {"compressor", "reverb"}.    *)
(***************************************************************************)
NoProcessors == [k \in {} |-> 0]

\* The dictionary set_track_fx builds for fx_type.
BuildProcessors(fx_type) ==
    IF fx_type = "wide_hall" THEN
        [k \in {"compressor", "reverb"} |->
            IF k = "compressor" THEN SimpleCompressor((7 * ONE) \div 10, 3)
            ELSE SimpleReverb((9 * ONE) \div 10, DefaultDamping, (4 * ONE) \div 10)]
    ELSE IF fx_type = "studio" THEN
        [k \in {"compressor", "reverb"} |->
            IF k = "compressor" THEN SimpleCompressor((6 * ONE) \div 10, 4)
            ELSE SimpleReverb((5 * ONE) \div 10, DefaultDamping, (25 * ONE) \div 100)]
    ELSE IF fx_type = "compressor" THEN
        [k \in {"compressor"} |-> SimpleCompressor((5 * ONE) \div 10, 6)]
    ELSE NoProcessors

\* process_track_fx: the processed audio and the processors after it.
ProcessTrackFx(processors, audio_data) ==
    IF DOMAIN processors = {} THEN [out |-> audio_data, state |-> processors]
    ELSE LET c == IF "compressor" \in DOMAIN processors
                  THEN CompressorProcess(processors["compressor"], audio_data)
                  ELSE [out |-> audio_data, state |-> 0]
             r == IF "reverb" \in DOMAIN processors
                  THEN ReverbProcess(processors["reverb"], c.out)
                  ELSE [out |-> c.out, state |-> 0]
         IN  [out |-> r.out,
              state |-> [k \in DOMAIN processors |->
                            IF k = "compressor" THEN c.state ELSE r.state]]

(***************************************************************************)
(* The state.                                                              *)
(***************************************************************************)
VARIABLES
    \* AudioEngine (src/audio_engine.py 121-202)
    stream_active,             \* self.stream is open and active
    is_recording, recording_track, recording_buffer, recording_lock,
    is_playing, playback_position, playback_lock,
    track_data, track_lengths,
    track_volumes, track_fx, fx_processors,
    measured_latency_samples, latency_calibrated,
    metronome_enabled, metronome_volume, bpm, samples_per_beat,
    metronome_sound, metronome_and_sound,
    master_volume_gain,
    \* the level meters (src/audio_engine.py 166-182) and the wall clock
    \* update_track_level reads (time.time(), in seconds)
    track_levels, track_peaks, peak_hold_time, now,
    \* TrackManager (src/track_manager.py 48-56)
    tracks, armed_track,
    \* ProjectManager (src/project_manager.py 13-23): the project in memory,
    \* and the text of the project's file on disk
    current_project, project_file,
    \* MultitrackUI: the control surface's own transport flags
    ui_is_recording, ui_is_playing,
    \* the audio thread: where audio_callback stands, and its locals
    cb_pc, indata, outdata, mixed_output, cb_todo, cb_samples_to_read,
    cb_exception,
    \* the control thread: where the running handler stands, and its locals
    ctl_pc, ctl,
    \* history, read by the properties only: callbacks begun during this
    \* playback and during this recording, channel 0 of the input received
    \* during this recording, the state the running callback began in, and
    \* whether stop_playback has returned since the last start_playback, the
    \* outcomes of the trials of the last measure_latency
    h_callbacks, h_rec_callbacks, h_captured, h_pre, h_stopped, h_trials,
    \* history: the settings the managers held when save_project last ran
    h_saved

recVars == <<is_recording, recording_track, recording_buffer, recording_lock>>
playVars == <<is_playing, playback_position, playback_lock>>
dataVars == <<track_data, track_lengths>>
fxVars == <<track_volumes, track_fx, fx_processors>>
latVars == <<measured_latency_samples, latency_calibrated>>
metroVars == <<metronome_enabled, metronome_volume, bpm, samples_per_beat,
               metronome_sound, metronome_and_sound>>
tmVars == <<tracks, armed_track>>
uiVars == <<ui_is_recording, ui_is_playing>>
cbVars == <<cb_pc, indata, outdata, mixed_output, cb_todo, cb_samples_to_read,
            cb_exception>>
ctlVars == <<ctl_pc, ctl>>
hVars == <<h_callbacks, h_rec_callbacks, h_captured, h_pre, h_stopped, h_trials>>
meterVars == <<track_levels, track_peaks, peak_hold_time>>
pmVars == <<current_project, project_file, h_saved>>

vars == <<stream_active, recVars, playVars, dataVars, fxVars, latVars, metroVars,
          master_volume_gain, meterVars, now, pmVars, tmVars, uiVars, cbVars,
          ctlVars, hVars>>

\* A stereo buffer of n frames of silence (np.zeros((n, 2))).
StereoZeros(n) == [i \in 1..n |-> <<0, 0>>]

\* str(n) of a natural number: its decimal digits, a sequence of characters.
Digits == <<"0", "1", "2", "3", "4", "5", "6", "7", "8", "9">>
RECURSIVE Str(_)
Str(n) == IF n < 10 THEN <<Digits[n + 1]>>
          ELSE Str(n \div 10) \o <<Digits[(n % 10) + 1]>>

\* f"Track {number}": a string is the sequence of its characters.
DefaultName(number) == <<"T", "r", "a", "c", "k", " ">> \o Str(number)

\* Track.__init__ (src/track_manager.py 7-13)
Track(number) ==
    [is_armed |-> FALSE, is_muted |-> FALSE, volume |-> ONE, has_data |-> FALSE,
     name |-> DefaultName(number)]

\* ProjectManager.current_project is None; there is no project file on disk;
\* no settings were saved yet.
NoProject == [bpm |-> None]
NoFile == [bpm |-> <<>>]
NoSettings == [bpm |-> None]

DefaultVolume == (75 * ONE) \div 100

\* calculate_metronome_timing: int(sample_rate / (bpm / 60.0)).
CalculateMetronomeTiming(sample_rate, b) ==
    IF b > 0 THEN (sample_rate * 60) \div b ELSE sample_rate

\* The locals of an idle control thread.
NoLocals == [track_num |-> None, fx_type |-> "none", buffer_copy |-> <<>>,
             audio_data |-> <<>>, filename |-> FALSE, i |-> 0, result |-> FALSE,
             project |-> NoProject]

\* The snapshot audio_callback's properties compare against.
NoSnapshot == [position |-> 0, processors |-> <<>>, playing |-> FALSE]

(***************************************************************************)
(* The state after MultitrackRecorderApp.__init__: AudioEngine.__init__,   *)
(* TrackManager.__init__, set_track_manager.  The two click waveforms are  *)
(* what initialize_metronome loaded or generated.                          *)
(***************************************************************************)
InitWith(click, accent) ==
    /\ stream_active = FALSE
    /\ is_recording = FALSE
    /\ recording_track = None
    /\ recording_buffer = <<>>
    /\ recording_lock = "free"
    /\ is_playing = FALSE
    /\ playback_position = 0
    /\ playback_lock = "free"
    /\ track_data = <<>>
    /\ track_lengths = <<>>
    /\ track_volumes = [t \in Tracks |-> DefaultVolume]
    /\ track_fx = [t \in Tracks |-> "none"]
    /\ fx_processors = [t \in Tracks |-> NoProcessors]
    /\ measured_latency_samples = 0
    /\ latency_calibrated = FALSE
    /\ metronome_enabled = FALSE
    /\ metronome_volume = ONE \div 2
    /\ bpm = 120
    /\ samples_per_beat = CalculateMetronomeTiming(SampleRate, 120)
    /\ metronome_sound = click
    /\ metronome_and_sound = accent
    /\ master_volume_gain = ONE
    /\ track_levels = [t \in Tracks |-> 0]
    /\ track_peaks = [t \in Tracks |-> FALSE]
    /\ peak_hold_time = [t \in Tracks |-> 0]
    /\ now = StartTime
    /\ tracks = [t \in Tracks |-> Track(t)]
    /\ armed_track = None
    /\ current_project = NoProject
    /\ project_file = NoFile
    /\ h_saved = NoSettings
    /\ ui_is_recording = FALSE
    /\ ui_is_playing = FALSE
    /\ cb_pc = "idle"
    /\ indata = <<>>
    /\ outdata = <<>>
    /\ mixed_output = <<>>
    /\ cb_todo = <<>>
    /\ cb_samples_to_read = 0
    /\ cb_exception = "none"
    /\ ctl_pc = "idle"
    /\ ctl = NoLocals
    /\ h_callbacks = 0
    /\ h_rec_callbacks = 0
    /\ h_captured = <<>>
    /\ h_pre = NoSnapshot
    /\ h_stopped = FALSE
    /\ h_trials = <<>>

(***************************************************************************)
(* AudioEngine.audio_callback (src/audio_engine.py 736-835), on the audio  *)
(* thread.                                                                 *)
(***************************************************************************)
\* level_decay and peak_hold_duration (seconds) of AudioEngine.__init__.
LevelDecayPct == 85
PeakHoldDuration == 1

\* np.max(np.abs(a)) of a non-empty array.
MaxAbs(a) ==
    LET S == {Abs(a[i]) : i \in 1..Len(a)}
    IN  CHOOSE m \in S : \A x \in S : x <= m

\* The three meter dictionaries as one value.
Meters(levels, peaks, hold) == [levels |-> levels, peaks |-> peaks, hold |-> hold]

\* update_track_level(track_num, new_level) at wall-clock time current_time.
UpdateTrackLevel(m, track_num, new_level, current_time) ==
    LET known == track_num \in DOMAIN m.levels
        levels == IF known THEN m.levels ELSE (track_num :> 0) @@ m.levels
        peaks == IF known THEN m.peaks ELSE (track_num :> FALSE) @@ m.peaks
        hold == IF known THEN m.hold ELSE (track_num :> 0) @@ m.hold
    IN  Meters([levels EXCEPT ![track_num] = Max(levels[track_num], new_level)],
               IF new_level >= ONE
               THEN [peaks EXCEPT ![track_num] = TRUE]
               ELSE IF current_time - hold[track_num] > PeakHoldDuration
               THEN [peaks EXCEPT ![track_num] = FALSE]
               ELSE peaks,
               IF new_level >= ONE
               THEN [hold EXCEPT ![track_num] = current_time]
               ELSE hold)

\* track_levels[t] = max(track_levels[t], level); update_track_level(t, level):
\* what the callback does with a level it measured (lines 753-757, 771-775,
\* 814-818), for a track that has its entry in track_levels.
MeterLevel(m, track_num, level, current_time) ==
    UpdateTrackLevel(
        [m EXCEPT !.levels[track_num] = Max(m.levels[track_num], level)],
        track_num, level, current_time)

\* for track_num in self.track_levels: self.track_levels[track_num] *= level_decay
DecayLevels(levels) == [t \in DOMAIN levels |-> (levels[t] * LevelDecayPct) \div 100]

\* The meters after the callback's step, written back to the three dictionaries.
SetMeters(m) ==
    /\ track_levels' = m.levels
    /\ track_peaks' = m.peaks
    /\ peak_hold_time' = m.hold

\* mono_input = indata[:, 0] if indata.shape[1] > 1 else indata.flatten()
RECURSIVE Flatten(_)
Flatten(frames) == IF frames = <<>> THEN <<>> ELSE Head(frames) \o Flatten(Tail(frames))

\* The first frame only (indata[0]) in place of the whole block.
MonoInputFirstFrame(ind) == IF ind = <<>> THEN <<>> ELSE ind[1]

MonoInput(ind) ==
    IF ind # <<>> /\ Len(ind[1]) > 1
    THEN [i \in 1..Len(ind) |-> ind[i][1]]
    ELSE Flatten(ind)

\* TrackManager.get_playable_tracks, in the dictionary's order 1..num_tracks.
RECURSIVE PlayableFrom(_)
PlayableFrom(t) ==
    IF t > NumTracks THEN <<>>
    ELSE (IF tracks[t].has_data /\ ~tracks[t].is_muted THEN <<t>> ELSE <<>>)
         \o PlayableFrom(t + 1)

GetPlayableTracks == PlayableFrom(1)

\* get_effective_metronome_volume
EffectiveMetronomeVolume ==
    IF metronome_volume = 0 THEN 0 ELSE metronome_volume * 4

\* The body of add_metronome_optimized's loop for the sample at absolute
\* position p: the click sample added to both channels, 0 when none is.
MetronomeClick(p) ==
    LET beat_position == p % samples_per_beat
        current_beat == ((p \div samples_per_beat) % 4) + 1
        sound_to_use == IF current_beat = 1 THEN metronome_and_sound
                        ELSE metronome_sound
    IN  IF beat_position < Len(metronome_sound) /\ beat_position < Len(sound_to_use)
        THEN Mul(sound_to_use[beat_position + 1], EffectiveMetronomeVolume)
        ELSE 0

\* add_metronome_optimized(output, frames)
AddMetronome(output, frames) ==
    IF EffectiveMetronomeVolume = 0 \/ samples_per_beat = 0 THEN output
    ELSE [i \in 1..Len(output) |->
            IF i <= frames
            THEN <<output[i][1] + MetronomeClick(playback_position + i - 1),
                   output[i][2] + MetronomeClick(playback_position + i - 1)>>
            ELSE output[i]]

\* The mix with `=` in place of `+=`: a track overwrites what is mixed so far.
MixIntoOverwrite(output, segment) ==
    [i \in 1..Len(output) |->
        IF i <= Len(segment) THEN <<segment[i], segment[i]>> ELSE output[i]]

\* mixed_output[:segment_len, 0] += segment; mixed_output[:segment_len, 1] += segment
MixInto(output, segment) ==
    [i \in 1..Len(output) |->
        IF i <= Len(segment)
        THEN <<output[i][1] + segment[i], output[i][2] + segment[i]>>
        ELSE output[i]]

\* if master_volume_gain != 1.0: mixed_output *= master_volume_gain
ApplyMaster(output, gain) ==
    IF gain # ONE
    THEN [i \in 1..Len(output) |-> <<Mul(output[i][1], gain), Mul(output[i][2], gain)>>]
    ELSE output

\* The cursor update with `=` in place of `+=`.
AdvancePositionAssign(position, frames) == frames

\* self.playback_position += frames
AdvancePosition(position, frames) == position + frames

\* An exception leaves audio_callback: the `with` blocks release the locks the
\* callback holds, and PortAudio aborts the stream (sounddevice wraps the
\* callback with error=paAbort), so no further callback runs on it.
CbRaise(kind) ==
    /\ cb_exception' = kind
    /\ cb_pc' = "idle"
    /\ stream_active' = FALSE
    /\ recording_lock' = IF recording_lock = "audio" THEN "free" ELSE recording_lock
    /\ playback_lock' = IF playback_lock = "audio" THEN "free" ELSE playback_lock

\* Lines 736-745 and 759-775: the callback is entered with `ind`, zeroes the
\* output and tests is_recording and recording_track; the input-monitoring
\* branch only updates meters.
CbBegin(ind) ==
    /\ cb_pc = "idle"
    /\ stream_active
    /\ indata' = ind
    /\ outdata' = StereoZeros(Len(ind))
    /\ cb_pc' = IF is_recording /\ recording_track # None THEN "record" ELSE "decay"
    /\ h_callbacks' = IF is_playing THEN h_callbacks + 1 ELSE h_callbacks
    /\ h_rec_callbacks' = IF is_recording THEN h_rec_callbacks + 1 ELSE h_rec_callbacks
    /\ h_captured' = IF is_recording
                     THEN h_captured \o [i \in 1..Len(ind) |-> ind[i][1]]
                     ELSE h_captured
    /\ h_pre' = [position |-> playback_position, processors |-> fx_processors,
                 playing |-> is_playing]
    /\ IF ~is_recording /\ armed_track # None
       THEN SetMeters(MeterLevel(Meters(track_levels, track_peaks, peak_hold_time),
                                 armed_track, MaxAbs(MonoInput(ind)), now))
       ELSE UNCHANGED meterVars
    /\ UNCHANGED <<now, pmVars, stream_active, recVars, playVars, dataVars, fxVars, latVars,
                   metroVars, master_volume_gain, tmVars, uiVars, mixed_output,
                   cb_todo, cb_samples_to_read, cb_exception, ctlVars, h_stopped, h_trials>>

\* Lines 746-757, under recording_lock: append the mono input, then look the
\* recording track up in track_levels (a KeyError when it is None).
CbRecord ==
    /\ cb_pc = "record"
    /\ recording_lock = "free"
    /\ recording_buffer' = recording_buffer \o MonoInput(indata)
    /\ IF recording_track = None
       THEN /\ CbRaise("KeyError")
            /\ UNCHANGED <<is_recording, recording_track, meterVars>>
       ELSE /\ cb_pc' = "decay"
            /\ SetMeters(MeterLevel(Meters(track_levels, track_peaks, peak_hold_time),
                                    recording_track, MaxAbs(MonoInput(indata)), now))
            /\ UNCHANGED <<stream_active, is_recording, recording_track,
                           recording_lock, playback_lock, cb_exception>>
    /\ UNCHANGED <<now, pmVars, is_playing, playback_position, dataVars, fxVars, latVars,
                   metroVars, master_volume_gain, tmVars, uiVars, indata, outdata,
                   mixed_output, cb_todo, cb_samples_to_read, ctlVars, hVars>>

\* Lines 777-782: decay the meters, then test is_playing (outside the lock);
\* when it is false the zeroed output is what the callback returns.
CbPlayCheck ==
    /\ cb_pc = "decay"
    /\ cb_pc' = IF is_playing THEN "play_lock" ELSE "return"
    /\ track_levels' = DecayLevels(track_levels)
    /\ UNCHANGED <<track_peaks, peak_hold_time>>
    /\ UNCHANGED <<now, pmVars, stream_active, recVars, playVars, dataVars, fxVars, latVars,
                   metroVars, master_volume_gain, tmVars, uiVars, indata, outdata,
                   mixed_output, cb_todo, cb_samples_to_read, cb_exception,
                   ctlVars, hVars>>

\* Lines 783-788: take playback_lock, allocate the mix buffer, ask the track
\* manager for the playable tracks.
CbPlayLock ==
    /\ cb_pc = "play_lock"
    /\ playback_lock = "free"
    /\ playback_lock' = "audio"
    /\ mixed_output' = StereoZeros(Len(indata))
    /\ cb_todo' = GetPlayableTracks
    /\ cb_pc' = "mix"
    /\ UNCHANGED <<meterVars, now, pmVars, stream_active, recVars, is_playing, playback_position, dataVars,
                   fxVars, latVars, metroVars, master_volume_gain, tmVars, uiVars,
                   indata, outdata, cb_samples_to_read, cb_exception, ctlVars, hVars>>

\* Lines 791-797 for the next playable track: membership in track_data, the
\* lookup in track_lengths (a KeyError when absent), the samples to read.
CbMixLength ==
    /\ cb_pc = "mix"
    /\ cb_todo # <<>>
    /\ LET track_num == Head(cb_todo) IN
       IF track_num \notin DOMAIN track_data
       THEN /\ cb_todo' = Tail(cb_todo)
            /\ UNCHANGED <<stream_active, recording_lock, playback_lock, cb_pc,
                           cb_samples_to_read, cb_exception>>
       ELSE IF track_num \notin DOMAIN track_lengths
       THEN /\ CbRaise("KeyError")
            /\ UNCHANGED <<cb_todo, cb_samples_to_read>>
       ELSE IF playback_position < track_lengths[track_num]
       THEN /\ cb_samples_to_read' =
                    Min(Len(indata), track_lengths[track_num] - playback_position)
            /\ cb_pc' = "mix_read"
            /\ UNCHANGED <<stream_active, recording_lock, playback_lock, cb_todo,
                           cb_exception>>
       ELSE /\ cb_todo' = Tail(cb_todo)
            /\ UNCHANGED <<stream_active, recording_lock, playback_lock, cb_pc,
                           cb_samples_to_read, cb_exception>>
    /\ UNCHANGED <<meterVars, now, pmVars, is_recording, recording_track, recording_buffer, is_playing,
                   playback_position, dataVars, fxVars, latVars, metroVars,
                   master_volume_gain, tmVars, uiVars, indata, outdata,
                   mixed_output, ctlVars, hVars>>

\* Lines 799-823 for that track: slice track_data (a KeyError when the track
\* has been deleted meanwhile), scale by the volume, run the FX chain, mix.
CbMixTrack ==
    /\ cb_pc = "mix_read"
    /\ LET track_num == Head(cb_todo) IN
       IF track_num \notin DOMAIN track_data
       THEN /\ CbRaise("KeyError")
            /\ UNCHANGED <<cb_todo, mixed_output, fx_processors, meterVars>>
       ELSE LET track_segment == Slice(track_data[track_num], playback_position,
                                       playback_position + cb_samples_to_read)
                track_volume == track_volumes[track_num]
                scaled == [i \in 1..Len(track_segment) |->
                              Mul(track_segment[i], track_volume)]
                fx == ProcessTrackFx(fx_processors[track_num], scaled)
            IN  /\ IF Len(track_segment) > 0
                   THEN /\ fx_processors' =
                               [fx_processors EXCEPT ![track_num] = fx.state]
                        /\ mixed_output' = MixInto(mixed_output, fx.out)
                        /\ SetMeters(MeterLevel(
                                Meters(track_levels, track_peaks, peak_hold_time),
                                track_num, MaxAbs(fx.out), now))
                   ELSE UNCHANGED <<fx_processors, mixed_output, meterVars>>
                /\ cb_todo' = Tail(cb_todo)
                /\ cb_pc' = "mix"
                /\ UNCHANGED <<stream_active, recording_lock, playback_lock,
                               cb_exception>>
    /\ UNCHANGED <<now, pmVars, is_recording, recording_track, recording_buffer, is_playing,
                   playback_position, dataVars, track_volumes, track_fx, latVars,
                   metroVars, master_volume_gain, tmVars, uiVars, indata, outdata,
                   cb_samples_to_read, ctlVars, hVars>>

\* Lines 825-835: the metronome, the master gain, the copy to the output, the
\* cursor; then playback_lock is released and the callback returns.
CbFinish ==
    /\ cb_pc = "mix"
    /\ cb_todo = <<>>
    /\ LET with_click == IF metronome_enabled
                         THEN AddMetronome(mixed_output, Len(indata))
                         ELSE mixed_output
           final == ApplyMaster(with_click, master_volume_gain)
       IN  /\ mixed_output' = final
           /\ outdata' = final
    /\ playback_position' = AdvancePosition(playback_position, Len(indata))
    /\ playback_lock' = "free"
    /\ cb_pc' = "return"
    /\ UNCHANGED <<meterVars, now, pmVars, stream_active, recVars, is_playing, dataVars, fxVars, latVars,
                   metroVars, master_volume_gain, tmVars, uiVars, indata, cb_todo,
                   cb_samples_to_read, cb_exception, ctlVars, hVars>>

\* The callback returns: PortAudio takes the output block, the locals die.
CbReturn ==
    /\ cb_pc = "return"
    /\ cb_pc' = "idle"
    /\ indata' = <<>>
    /\ outdata' = <<>>
    /\ mixed_output' = <<>>
    /\ cb_samples_to_read' = 0
    /\ h_pre' = NoSnapshot
    /\ UNCHANGED <<meterVars, now, pmVars, stream_active, recVars, playVars, dataVars, fxVars, latVars,
                   metroVars, master_volume_gain, tmVars, uiVars, cb_todo,
                   cb_exception, ctlVars, h_callbacks, h_rec_callbacks,
                   h_captured, h_stopped, h_trials>>

(***************************************************************************)
(* The control thread.  A handler of MultitrackUI runs to completion before *)
(* the next one starts (Tk's main loop); its steps interleave with the      *)
(* audio thread's.  A `with lock:` section whose writes the audio thread    *)
(* reads only under the same lock is one step.  A write to one of the       *)
(* variables the callback reads without the lock and branches or indexes    *)
(* on (is_recording, recording_track, is_playing, track_data,               *)
(* track_lengths, track_fx, fx_processors) ends a step; the other           *)
(* configuration writes of a handler (metronome, volumes, the manager's     *)
(* flags) are grouped into one step.                                        *)
(***************************************************************************)
Return == /\ ctl_pc' = "idle"
          /\ ctl' = NoLocals

\* start_stream (src/audio_engine.py 991-1029): `ok` is whether sd.Stream
\* opened and started.  A new stream has no failed callback behind it.
StartStream(ok) ==
    /\ stream_active' = ok
    /\ cb_exception' = IF ok THEN "none" ELSE cb_exception

\* MultitrackUI.start_playback (src/ui_controller.py 1543-1559); the PLAY
\* button is disabled while the surface shows playback.
UiStartPlayback ==
    /\ ctl_pc = "idle"
    /\ ~ui_is_playing
    /\ ctl_pc' = "play_stream"
    /\ UNCHANGED <<meterVars, now, pmVars, stream_active, recVars, playVars, dataVars, fxVars, latVars,
                   metroVars, master_volume_gain, tmVars, uiVars, cbVars, ctl, hVars>>

\* AudioEngine.start_playback, lines 1096-1098.
StartPlaybackStream(ok) ==
    /\ ctl_pc = "play_stream"
    /\ IF stream_active
       THEN /\ ctl_pc' = "play_lock"
            /\ UNCHANGED <<stream_active, cb_exception, ctl>>
       ELSE /\ StartStream(ok)
            /\ IF ok THEN ctl_pc' = "play_lock" /\ UNCHANGED ctl ELSE Return
    /\ UNCHANGED <<meterVars, now, pmVars, recVars, playVars, dataVars, fxVars, latVars, metroVars,
                   master_volume_gain, tmVars, uiVars, cb_pc, indata, outdata,
                   mixed_output, cb_todo, cb_samples_to_read, hVars>>

\* AudioEngine.start_playback, lines 1100-1106, and the rest of the handler:
\* the armed track, if any, is recorded into.
StartPlaybackLock ==
    /\ ctl_pc = "play_lock"
    /\ playback_lock = "free"
    /\ is_playing' = TRUE
    /\ playback_position' = 0
    /\ ui_is_playing' = TRUE
    /\ h_callbacks' = 0
    /\ h_stopped' = FALSE
    /\ IF armed_track # None
       THEN /\ ctl_pc' = "rec_stream"
            /\ ctl' = [ctl EXCEPT !.track_num = armed_track]
       ELSE Return
    /\ UNCHANGED <<meterVars, now, pmVars, stream_active, recVars, playback_lock, dataVars, fxVars, latVars,
                   metroVars, master_volume_gain, tmVars, ui_is_recording, cbVars,
                   h_rec_callbacks, h_captured, h_pre, h_trials>>

\* AudioEngine.start_recording, lines 1040-1042.
StartRecordingStream(ok) ==
    /\ ctl_pc = "rec_stream"
    /\ IF stream_active
       THEN /\ ctl_pc' = "rec_lock"
            /\ UNCHANGED <<stream_active, cb_exception, ctl>>
       ELSE /\ StartStream(ok)
            /\ IF ok THEN ctl_pc' = "rec_lock" /\ UNCHANGED ctl ELSE Return
    /\ UNCHANGED <<meterVars, now, pmVars, recVars, playVars, dataVars, fxVars, latVars, metroVars,
                   master_volume_gain, tmVars, uiVars, cb_pc, indata, outdata,
                   mixed_output, cb_todo, cb_samples_to_read, hVars>>

\* AudioEngine.start_recording, lines 1044-1045: the lock, is_recording = True.
StartRecordingFlag ==
    /\ ctl_pc = "rec_lock"
    /\ recording_lock = "free"
    /\ recording_lock' = "control"
    /\ is_recording' = TRUE
    /\ ctl_pc' = "rec_track"
    /\ UNCHANGED <<meterVars, now, pmVars, stream_active, recording_track, recording_buffer, playVars,
                   dataVars, fxVars, latVars, metroVars, master_volume_gain, tmVars,
                   uiVars, cbVars, ctl, hVars>>

\* AudioEngine.start_recording, lines 1046-1050, and the handler's flag.
StartRecordingTrack ==
    /\ ctl_pc = "rec_track"
    /\ recording_track' = ctl.track_num
    /\ recording_buffer' = <<>>
    /\ recording_lock' = "free"
    /\ ui_is_recording' = TRUE
    /\ h_rec_callbacks' = 0
    /\ h_captured' = <<>>
    /\ Return
    /\ UNCHANGED <<meterVars, now, pmVars, stream_active, is_recording, playVars, dataVars, fxVars, latVars,
                   metroVars, master_volume_gain, tmVars, ui_is_playing, cbVars,
                   h_callbacks, h_pre, h_stopped, h_trials>>

\* MultitrackUI.stop_all (src/ui_controller.py 1378-1399).
UiStopAll ==
    /\ ctl_pc = "idle"
    /\ ctl_pc' = IF ui_is_recording THEN "stoprec_check" ELSE "stop_lock"
    /\ UNCHANGED <<meterVars, now, pmVars, stream_active, recVars, playVars, dataVars, fxVars, latVars,
                   metroVars, master_volume_gain, tmVars, uiVars, cbVars, ctl, hVars>>

\* AudioEngine.stop_recording, lines 1054-1055; a None result leaves the
\* handler's `if armed_track and filename` false.
StopRecordingCheck ==
    /\ ctl_pc = "stoprec_check"
    /\ IF is_recording
       THEN /\ ctl_pc' = "stoprec_lock"
            /\ UNCHANGED ui_is_recording
       ELSE /\ ctl_pc' = "stop_lock"
            /\ ui_is_recording' = FALSE
    /\ UNCHANGED <<meterVars, now, pmVars, stream_active, recVars, playVars, dataVars, fxVars, latVars,
                   metroVars, master_volume_gain, tmVars, ui_is_playing, cbVars,
                   ctl, hVars>>

\* AudioEngine.stop_recording, lines 1057-1058.
StopRecordingFlag ==
    /\ ctl_pc = "stoprec_lock"
    /\ recording_lock = "free"
    /\ recording_lock' = "control"
    /\ is_recording' = FALSE
    /\ ctl_pc' = "stoprec_take"
    /\ UNCHANGED <<meterVars, now, pmVars, stream_active, recording_track, recording_buffer, playVars,
                   dataVars, fxVars, latVars, metroVars, master_volume_gain, tmVars,
                   uiVars, cbVars, ctl, hVars>>

\* AudioEngine.stop_recording, lines 1059-1062.
StopRecordingTake ==
    /\ ctl_pc = "stoprec_take"
    /\ ctl' = [ctl EXCEPT !.track_num = recording_track,
                          !.buffer_copy = recording_buffer]
    /\ recording_buffer' = <<>>
    /\ recording_track' = None
    /\ recording_lock' = "free"
    /\ h_captured' = <<>>
    /\ h_rec_callbacks' = 0
    /\ ctl_pc' = "stoprec_store"
    /\ UNCHANGED <<meterVars, now, pmVars, stream_active, is_recording, playVars, dataVars, fxVars, latVars,
                   metroVars, master_volume_gain, tmVars, uiVars, cbVars,
                   h_callbacks, h_pre, h_stopped, h_trials>>

\* The trim keeping the head of the recording (audio_data[:latency]).
ApplyLatencyCompensationKeepingHead(audio_data, latency) ==
    IF latency > 0
    THEN IF Len(audio_data) > latency
         THEN SubSeq(audio_data, 1, latency)
         ELSE audio_data
    ELSE audio_data

\* The trim without the test of the recording's length.
ApplyLatencyCompensationUnchecked(audio_data, latency) ==
    IF latency > 0
    THEN SubSeq(audio_data, latency + 1, Len(audio_data))
    ELSE audio_data

\* Lines 1068-1074: trim the measured latency off the front of the recording.
ApplyLatencyCompensation(audio_data, latency) ==
    IF latency > 0
    THEN IF Len(audio_data) > latency
         THEN SubSeq(audio_data, latency + 1, Len(audio_data))
         ELSE audio_data
    ELSE audio_data

\* AudioEngine.stop_recording, lines 1064-1077: nothing captured returns None;
\* otherwise the compensated buffer is stored in track_data.
StopRecordingStore ==
    /\ ctl_pc = "stoprec_store"
    /\ IF Len(ctl.buffer_copy) > 0 /\ ctl.track_num # None
       THEN LET audio_data == ApplyLatencyCompensation(ctl.buffer_copy,
                                                       measured_latency_samples)
            IN  /\ track_data' = (ctl.track_num :> audio_data) @@ track_data
                /\ ctl' = [ctl EXCEPT !.audio_data = audio_data]
                /\ ctl_pc' = "stoprec_length"
                /\ UNCHANGED ui_is_recording
       ELSE /\ ctl_pc' = "stop_lock"
            /\ ui_is_recording' = FALSE
            /\ ctl' = NoLocals
            /\ UNCHANGED track_data
    /\ UNCHANGED <<meterVars, now, pmVars, stream_active, recVars, playVars, track_lengths, fxVars, latVars,
                   metroVars, master_volume_gain, tmVars, ui_is_playing, cbVars, hVars>>

\* AudioEngine.stop_recording, line 1078.
StopRecordingLength ==
    /\ ctl_pc = "stoprec_length"
    /\ track_lengths' = (ctl.track_num :> Len(ctl.audio_data)) @@ track_lengths
    /\ ctl_pc' = "stoprec_save"
    /\ UNCHANGED <<meterVars, now, pmVars, stream_active, recVars, playVars, track_data, fxVars, latVars,
                   metroVars, master_volume_gain, tmVars, uiVars, cbVars, ctl, hVars>>

\* TrackManager.mark_track_has_data (src/track_manager.py 105-108)
MarkTrackHasData(trks, track_number, has_data) ==
    IF track_number \in DOMAIN trks
    THEN [trks EXCEPT ![track_number].has_data = has_data]
    ELSE trks

\* AudioEngine.stop_recording, lines 1080-1092 (`ok`: sf.write succeeded, so a
\* file name is returned), then stop_all lines 1383-1391: the track marked
\* as having data is the one armed now.
StopRecordingSave(ok) ==
    /\ ctl_pc = "stoprec_save"
    /\ ui_is_recording' = FALSE
    /\ tracks' = IF armed_track # None /\ ok
                 THEN MarkTrackHasData(tracks, armed_track, TRUE)
                 ELSE tracks
    /\ ctl_pc' = "stop_lock"
    /\ ctl' = NoLocals
    /\ UNCHANGED <<meterVars, now, pmVars, stream_active, recVars, playVars, dataVars, fxVars, latVars,
                   metroVars, master_volume_gain, armed_track, ui_is_playing,
                   cbVars, hVars>>

\* TrackManager.disarm_all_tracks (src/track_manager.py 80-85)
DisarmAll(trks) == [t \in DOMAIN trks |-> [trks[t] EXCEPT !.is_armed = FALSE]]

\* AudioEngine.stop_playback (lines 1114-1120), then stop_all lines 1395-1399.
StopPlaybackLock ==
    /\ ctl_pc = "stop_lock"
    /\ playback_lock = "free"
    /\ is_playing' = FALSE
    /\ playback_position' = 0
    /\ ui_is_playing' = FALSE
    /\ tracks' = DisarmAll(tracks)
    /\ armed_track' = None
    /\ h_stopped' = TRUE
    /\ Return
    /\ UNCHANGED <<meterVars, now, pmVars, stream_active, recVars, playback_lock, dataVars, fxVars, latVars,
                   metroVars, master_volume_gain, ui_is_recording, cbVars,
                   h_callbacks, h_rec_callbacks, h_captured, h_pre, h_trials>>

(***************************************************************************)
(* TrackManager (src/track_manager.py 48-151).  Its methods run on the     *)
(* control thread; the audio thread reads armed_track, has_data and        *)
(* is_muted only.  Each method is a function of the manager's state        *)
(* (tracks, armed_track) and returns the state after it.                   *)
(***************************************************************************)
TmState(trks, armed) == [tracks |-> trks, armed_track |-> armed]

\* arm_track without its disarming loop.
ArmTrackKeepingOthers(trks, armed, track_number) ==
    IF track_number \in DOMAIN trks
    THEN TmState([trks EXCEPT ![track_number].is_armed = TRUE], track_number)
    ELSE TmState(trks, armed)

\* arm_track: disarm every track, then arm track_number when it is a track.
ArmTrack(trks, armed, track_number) ==
    IF track_number \in DOMAIN trks
    THEN TmState([DisarmAll(trks) EXCEPT ![track_number].is_armed = TRUE],
                 track_number)
    ELSE TmState(DisarmAll(trks), armed)

\* disarm_all_tracks
DisarmAllTracks(trks, armed) == TmState(DisarmAll(trks), None)

\* clear_track
ClearTrack(trks, armed, track_number) ==
    IF track_number \in DOMAIN trks
    THEN TmState([trks EXCEPT ![track_number] =
                        [Track(track_number) EXCEPT !.name = trks[track_number].name]],
                 IF armed = track_number THEN None ELSE armed)
    ELSE TmState(trks, armed)

\* reset_all_tracks: clear_track for every track.
RECURSIVE ResetFrom(_, _, _)
ResetFrom(trks, armed, t) ==
    IF t > NumTracks THEN TmState(trks, armed)
    ELSE LET st == ClearTrack(trks, armed, t)
         IN  ResetFrom(st.tracks, st.armed_track, t + 1)

ResetAllTracks(trks, armed) == ResetFrom(trks, armed, 1)

\* toggle_track_mute
ToggleTrackMute(trks, track_number) ==
    IF track_number \in DOMAIN trks
    THEN [trks EXCEPT ![track_number].is_muted = ~trks[track_number].is_muted]
    ELSE trks

\* set_track_volume, with Track.set_volume's clamp to [0, 1].
SetTrackVolume(trks, track_number, volume) ==
    IF track_number \in DOMAIN trks
    THEN [trks EXCEPT ![track_number].volume = Max(0, Min(ONE, volume))]
    ELSE trks

\* The manager's methods as steps of the control thread.
TmOnly ==
    /\ ctl_pc = "idle"
    /\ UNCHANGED <<meterVars, now, pmVars, stream_active, recVars, playVars, dataVars, fxVars, latVars,
                   metroVars, master_volume_gain, uiVars, cbVars, ctlVars, hVars>>

TmArmTrack(n) ==
    /\ TmOnly
    /\ tracks' = ArmTrack(tracks, armed_track, n).tracks
    /\ armed_track' = ArmTrack(tracks, armed_track, n).armed_track

TmDisarmAllTracks ==
    /\ TmOnly
    /\ tracks' = DisarmAllTracks(tracks, armed_track).tracks
    /\ armed_track' = DisarmAllTracks(tracks, armed_track).armed_track

TmClearTrack(n) ==
    /\ TmOnly
    /\ tracks' = ClearTrack(tracks, armed_track, n).tracks
    /\ armed_track' = ClearTrack(tracks, armed_track, n).armed_track

TmResetAllTracks ==
    /\ TmOnly
    /\ tracks' = ResetAllTracks(tracks, armed_track).tracks
    /\ armed_track' = ResetAllTracks(tracks, armed_track).armed_track

TmToggleTrackMute(n) ==
    /\ TmOnly
    /\ tracks' = ToggleTrackMute(tracks, n)
    /\ UNCHANGED armed_track

TmSetTrackVolume(n, volume) ==
    /\ TmOnly
    /\ tracks' = SetTrackVolume(tracks, n, volume)
    /\ UNCHANGED armed_track

TmMarkTrackHasData(n, has_data) ==
    /\ TmOnly
    /\ tracks' = MarkTrackHasData(tracks, n, has_data)
    /\ UNCHANGED armed_track

\* MultitrackUI.toggle_arm (src/ui_controller.py 1561-1572)
UiToggleArm(track_num) ==
    /\ TmOnly
    /\ LET st == IF armed_track = track_num
                 THEN DisarmAllTracks(tracks, armed_track)
                 ELSE IF ~tracks[track_num].has_data
                 THEN ArmTrack(tracks, armed_track, track_num)
                 ELSE TmState(tracks, armed_track)
       IN  /\ tracks' = st.tracks
           /\ armed_track' = st.armed_track

\* MultitrackUI.toggle_mute (src/ui_controller.py 1574-1576)
UiToggleMute(track_num) == TmToggleTrackMute(track_num)

(***************************************************************************)
(* MultitrackUI.set_track_fx -> AudioEngine.set_track_fx (src/             *)
(* audio_engine.py 221-241): the type is stored first, the processors are   *)
(* constructed and stored after it.  No lock is taken.                     *)
(***************************************************************************)
\* MultitrackUI.set_track_fx calls it; line 223.
SetTrackFxType(track_num, fx_type) ==
    /\ ctl_pc = "idle"
    /\ track_fx' = (track_num :> fx_type) @@ track_fx
    /\ ctl' = [ctl EXCEPT !.track_num = track_num, !.fx_type = fx_type]
    /\ ctl_pc' = "fx_build"
    /\ UNCHANGED <<meterVars, now, pmVars, stream_active, recVars, playVars, dataVars, track_volumes,
                   fx_processors, latVars, metroVars, master_volume_gain, tmVars,
                   uiVars, cbVars, hVars>>

\* The processors are kept when the track already holds the type's chain.
SetTrackFxProcessorsKeepingSame ==
    /\ ctl_pc = "fx_build"
    /\ fx_processors' =
          IF /\ ctl.track_num \in DOMAIN fx_processors
             /\ DOMAIN fx_processors[ctl.track_num] = DOMAIN BuildProcessors(ctl.fx_type)
          THEN fx_processors
          ELSE (ctl.track_num :> BuildProcessors(ctl.fx_type)) @@ fx_processors
    /\ Return
    /\ UNCHANGED <<meterVars, now, pmVars, stream_active, recVars, playVars, dataVars, track_volumes,
                   track_fx, latVars, metroVars, master_volume_gain, tmVars,
                   uiVars, cbVars, hVars>>

\* lines 226-241
SetTrackFxProcessors ==
    /\ ctl_pc = "fx_build"
    /\ fx_processors' = (ctl.track_num :> BuildProcessors(ctl.fx_type)) @@ fx_processors
    /\ Return
    /\ UNCHANGED <<meterVars, now, pmVars, stream_active, recVars, playVars, dataVars, track_volumes,
                   track_fx, latVars, metroVars, master_volume_gain, tmVars,
                   uiVars, cbVars, hVars>>

(***************************************************************************)
(* MultitrackUI.new_project (src/ui_controller.py 952-1037) ->             *)
(* AudioEngine.clear_all_project_data (src/audio_engine.py 1274-1302).     *)
(***************************************************************************)
UiNewProject ==
    /\ ctl_pc = "idle"
    /\ ctl_pc' = "clear_data"
    /\ UNCHANGED <<meterVars, now, pmVars, stream_active, recVars, playVars, dataVars, fxVars, latVars,
                   metroVars, master_volume_gain, tmVars, uiVars, cbVars, ctl, hVars>>

\* line 1278
ClearTrackData ==
    /\ ctl_pc = "clear_data"
    /\ track_data' = <<>>
    /\ ctl_pc' = "clear_lengths"
    /\ UNCHANGED <<meterVars, now, pmVars, stream_active, recVars, playVars, track_lengths, fxVars, latVars,
                   metroVars, master_volume_gain, tmVars, uiVars, cbVars, ctl, hVars>>

\* line 1279
ClearTrackLengths ==
    /\ ctl_pc = "clear_lengths"
    /\ track_lengths' = <<>>
    /\ ctl_pc' = "clear_fx_type"
    /\ ctl' = [ctl EXCEPT !.i = 1]
    /\ UNCHANGED <<meterVars, now, pmVars, stream_active, recVars, playVars, track_data, fxVars, latVars,
                   metroVars, master_volume_gain, tmVars, uiVars, cbVars, hVars>>

\* lines 1283-1288 for track i
ClearFxType ==
    /\ ctl_pc = "clear_fx_type"
    /\ track_volumes' = [track_volumes EXCEPT ![ctl.i] = DefaultVolume]
    /\ track_fx' = [track_fx EXCEPT ![ctl.i] = "none"]
    /\ track_levels' = [track_levels EXCEPT ![ctl.i] = 0]
    /\ track_peaks' = [track_peaks EXCEPT ![ctl.i] = FALSE]
    /\ peak_hold_time' = [peak_hold_time EXCEPT ![ctl.i] = 0]
    /\ ctl_pc' = "clear_fx_build"
    /\ UNCHANGED <<now, pmVars, stream_active, recVars, playVars, dataVars, fx_processors,
                   latVars, metroVars, master_volume_gain, tmVars, uiVars, cbVars,
                   ctl, hVars>>

\* line 1289 for track i, and the loop's next round
ClearFxProcessors ==
    /\ ctl_pc = "clear_fx_build"
    /\ fx_processors' = [fx_processors EXCEPT ![ctl.i] = NoProcessors]
    /\ IF ctl.i < NumTracks
       THEN /\ ctl' = [ctl EXCEPT !.i = ctl.i + 1]
            /\ ctl_pc' = "clear_fx_type"
       ELSE /\ ctl' = [ctl EXCEPT !.i = 0]
            /\ ctl_pc' = "clear_stop"
    /\ UNCHANGED <<meterVars, now, pmVars, stream_active, recVars, playVars, dataVars, track_volumes,
                   track_fx, latVars, metroVars, master_volume_gain, tmVars, uiVars,
                   cbVars, hVars>>

\* line 1292: stop_playback()
ClearStopPlayback ==
    /\ ctl_pc = "clear_stop"
    /\ playback_lock = "free"
    /\ is_playing' = FALSE
    /\ playback_position' = 0
    /\ ctl_pc' = "clear_rec"
    /\ h_stopped' = TRUE
    /\ UNCHANGED <<meterVars, now, pmVars, stream_active, recVars, playback_lock, dataVars, fxVars, latVars,
                   metroVars, master_volume_gain, tmVars, uiVars, cbVars, ctl,
                   h_callbacks, h_rec_callbacks, h_captured, h_pre, h_trials>>

\* The rest of new_project (lines 977-1008): reset_all_tracks, set_bpm(120),
\* set_metronome(False), the volumes, set_track_fx(t, "none") for every
\* track, the metronome volume.
NewProjectDefaults ==
    /\ tracks' = [t \in Tracks |->
                    [ResetAllTracks(tracks, armed_track).tracks[t]
                        EXCEPT !.volume = DefaultVolume, !.name = DefaultName(t)]]
    /\ armed_track' = ResetAllTracks(tracks, armed_track).armed_track
    /\ bpm' = 120
    /\ samples_per_beat' = CalculateMetronomeTiming(SampleRate, 120)
    /\ metronome_enabled' = FALSE
    /\ metronome_volume' = ONE \div 2
    /\ track_volumes' = [t \in Tracks |-> DefaultVolume]
    /\ track_fx' = [t \in Tracks |-> "none"]
    /\ fx_processors' = [t \in Tracks |-> NoProcessors]
    /\ Return

\* lines 1293-1294: is_recording is read and cleared outside the lock.
ClearRecordingFlag ==
    /\ ctl_pc = "clear_rec"
    /\ IF is_recording
       THEN /\ is_recording' = FALSE
            /\ ctl_pc' = "clear_rec_lock"
            /\ UNCHANGED <<ctl, tmVars, fxVars, metroVars>>
       ELSE /\ NewProjectDefaults
            /\ UNCHANGED <<is_recording, metronome_sound, metronome_and_sound>>
    /\ UNCHANGED <<meterVars, now, pmVars, stream_active, recording_track, recording_buffer, recording_lock,
                   playVars, dataVars, latVars, master_volume_gain, uiVars, cbVars,
                   hVars>>

\* lines 1295-1297, then the rest of new_project
ClearRecordingLock ==
    /\ ctl_pc = "clear_rec_lock"
    /\ recording_lock = "free"
    /\ recording_buffer' = <<>>
    /\ recording_track' = None
    /\ h_captured' = <<>>
    /\ h_rec_callbacks' = 0
    /\ NewProjectDefaults
    /\ UNCHANGED <<meterVars, now, pmVars, stream_active, is_recording, recording_lock, playVars, dataVars,
                   latVars, metronome_sound, metronome_and_sound,
                   master_volume_gain, uiVars, cbVars, h_callbacks, h_pre,
                   h_stopped, h_trials>>

(***************************************************************************)
(* The transport model: the control surface's handlers on the control      *)
(* thread against the callback on the audio thread, every interleaving.    *)
(* The microphone delivers silence, one channel (sd.Stream is opened with  *)
(* channels=(1, 2)).                                                       *)
(***************************************************************************)
SilentInput == [i \in 1..Frames |-> <<0>>]

\* The generated click of initialize_metronome at the model's sample rate.
GeneratedClick == [i \in 1..((5 * SampleRate) \div 100) |-> ONE \div 2]

Init == InitWith(GeneratedClick, GeneratedClick)

\* The transport model follows playback up to MaxPos and a recording up to
\* MaxPos samples.
CallbackInBounds ==
    /\ is_playing => playback_position + Frames <= MaxPos
    /\ is_recording => Len(recording_buffer) + Frames <= MaxPos

AudioThread ==
    \/ CallbackInBounds /\ CbBegin(SilentInput)
    \/ CbRecord
    \/ CbPlayCheck
    \/ CbPlayLock
    \/ CbMixLength
    \/ CbMixTrack
    \/ CbFinish
    \/ CbReturn

ControlThread ==
    \/ UiStartPlayback
    \/ \E ok \in BOOLEAN : StartPlaybackStream(ok)
    \/ StartPlaybackLock
    \/ \E ok \in BOOLEAN : StartRecordingStream(ok)
    \/ StartRecordingFlag
    \/ StartRecordingTrack
    \/ UiStopAll
    \/ StopRecordingCheck
    \/ StopRecordingFlag
    \/ StopRecordingTake
    \/ StopRecordingStore
    \/ StopRecordingLength
    \/ \E ok \in BOOLEAN : StopRecordingSave(ok)
    \/ StopPlaybackLock
    \/ \E t \in Tracks : UiToggleArm(t)
    \/ \E t \in Tracks, fx \in {"none", "compressor"} : SetTrackFxType(t, fx)
    \/ SetTrackFxProcessors
    \/ UiNewProject
    \/ ClearTrackData
    \/ ClearTrackLengths
    \/ ClearFxType
    \/ ClearFxProcessors
    \/ ClearStopPlayback
    \/ ClearRecordingFlag
    \/ ClearRecordingLock

Next == AudioThread \/ ControlThread

Spec == Init /\ [][Next]_vars

(***************************************************************************)
(* Properties of the transport model.                                      *)
(***************************************************************************)
\* C2: once stop_playback has returned, and until the next start_playback,
\* the playback cursor is 0 and is_playing is false, whatever a callback
\* that was already running does.
CursorStaysZeroAfterStop ==
    h_stopped => (playback_position = 0 /\ ~is_playing)

\* The keys of fx_processors[t] the claim prescribes for an FX type.
PrescribedProcessors(fx_type) ==
    CASE fx_type = "none" -> {}
      [] fx_type = "compressor" -> {"compressor"}
      [] fx_type = "studio" -> {"compressor", "reverb"}
      [] fx_type = "wide_hall" -> {"compressor", "reverb"}

\* C9: whenever the callback is about to run a track's FX chain during
\* playback (it has read the track's length and is at the slice, volume, FX
\* and mix lines), the processors stored for that track are those its
\* configured FX type prescribes.
ProcessorsMatchFxType ==
    (cb_pc = "mix_read" /\ is_playing) =>
        DOMAIN fx_processors[Head(cb_todo)] =
            PrescribedProcessors(track_fx[Head(cb_todo)])

\* C10: no callback ends with an exception.
CallbackNeverRaises == cb_exception = "none"

(***************************************************************************)
(* The track manager model: TrackManager's methods called in any order     *)
(* with any track number, valid or not.                                    *)
(***************************************************************************)
TrackNumbers == 0..(NumTracks + 1)

VolumeInputs == {-(ONE \div 2), ONE \div 2, ONE + (ONE \div 2)}

NextTM ==
    \/ \E n \in TrackNumbers : TmArmTrack(n)
    \/ TmDisarmAllTracks
    \/ \E n \in TrackNumbers : TmClearTrack(n)
    \/ TmResetAllTracks
    \/ \E n \in TrackNumbers : TmToggleTrackMute(n)
    \/ \E n \in TrackNumbers, v \in VolumeInputs : TmSetTrackVolume(n, v)
    \/ \E n \in TrackNumbers, b \in BOOLEAN : TmMarkTrackHasData(n, b)

SpecTM == Init /\ [][NextTM]_vars

ArmedTracks == {t \in Tracks : tracks[t].is_armed}

\* C8: at most one track is armed in every state the manager's methods
\* reach, and an arm_track(n) step leaves no track other than n armed.
AtMostOneArmed ==
    /\ [](Cardinality(ArmedTracks) <= 1)
    /\ [][\A n \in TrackNumbers :
            TmArmTrack(n) => \A t \in Tracks \ {n} : ~tracks'[t].is_armed]_vars

\* Track 2 is armed by arm_track(2) while track 1, which has been given data
\* and muted since the start, is not.
ArmedSecondTrack ==
    /\ armed_track = 2
    /\ ArmedTracks = {2}
    /\ tracks[1].has_data
    /\ tracks[1].is_muted

(***************************************************************************)
(* AudioEngine.measure_latency (src/audio_engine.py 391-489).  A trial     *)
(* either yields a latency (the correlation peak's offset, which noise can *)
(* make negative), or records too little and is skipped, or raises (the    *)
(* device cannot be opened), which ends the whole measurement in the       *)
(* except clause.                                                          *)
(***************************************************************************)
NumTrials == 4
BufferSize == 256

ValidTrial(latency) == [kind |-> "valid", latency |-> latency]
ShortTrial == [kind |-> "short", latency |-> 0]
RaisingTrial == [kind |-> "raise", latency |-> 0]

\* The loop over the trials: the measurements appended, and whether a trial
\* raised.
RECURSIVE RunTrials(_, _)
RunTrials(outcomes, latency_measurements) ==
    IF outcomes = <<>> THEN [raised |-> FALSE, measurements |-> latency_measurements]
    ELSE IF Head(outcomes).kind = "raise"
    THEN [raised |-> TRUE, measurements |-> latency_measurements]
    ELSE IF Head(outcomes).kind = "short"
    THEN RunTrials(Tail(outcomes), latency_measurements)
    ELSE RunTrials(Tail(outcomes),
                   Append(latency_measurements, Head(outcomes).latency))

\* list.sort()
RECURSIVE InsertSorted(_, _)
InsertSorted(sorted, x) ==
    IF sorted = <<>> THEN <<x>>
    ELSE IF x <= Head(sorted) THEN <<x>> \o sorted
    ELSE <<Head(sorted)>> \o InsertSorted(Tail(sorted), x)

RECURSIVE SortMeasurements(_)
SortMeasurements(m) ==
    IF m = <<>> THEN <<>>
    ELSE InsertSorted(SortMeasurements(Tail(m)), Head(m))

\* Lines 461-489: what measure_latency stores, given the trials' outcomes and
\* the calibrated flag before it.
MeasureLatencyResult(outcomes, calibrated) ==
    LET run == RunTrials(outcomes, <<>>)
        m == run.measurements
    IN  IF ~run.raised /\ Len(m) >= 2
        THEN LET kept == IF Len(m) >= 4
                         THEN SubSeq(SortMeasurements(m), 2, Len(m) - 1)
                         ELSE m
             IN  [samples |-> SumSeq(kept) \div Len(kept), calibrated |-> TRUE]
        ELSE [samples |-> BufferSize * 4, calibrated |-> calibrated]

MeasureLatency(outcomes) ==
    /\ ctl_pc = "idle"
    /\ measured_latency_samples' =
            MeasureLatencyResult(outcomes, latency_calibrated).samples
    /\ latency_calibrated' =
            MeasureLatencyResult(outcomes, latency_calibrated).calibrated
    /\ h_trials' = outcomes
    /\ UNCHANGED <<meterVars, now, pmVars, stream_active, recVars, playVars, dataVars, fxVars, metroVars,
                   master_volume_gain, tmVars, uiVars, cbVars, ctlVars,
                   h_callbacks, h_rec_callbacks, h_captured, h_pre, h_stopped>>

(***************************************************************************)
(* The calibration model: measure_latency run any number of times, every   *)
(* trial with any outcome.                                                 *)
(***************************************************************************)
TrialOutcomes ==
    {ShortTrial, RaisingTrial} \cup {ValidTrial(k) : k \in {-1, 1, MaxLatency}}

NextLat == \E outcomes \in [1..NumTrials -> TrialOutcomes] : MeasureLatency(outcomes)

SpecLat == Init /\ [][NextLat]_vars

\* The latencies of the valid trials among those that were run.
RECURSIVE ValidLatencies(_)
ValidLatencies(outcomes) ==
    IF outcomes = <<>> \/ Head(outcomes).kind = "raise" THEN <<>>
    ELSE IF Head(outcomes).kind = "valid"
    THEN <<Head(outcomes).latency>> \o ValidLatencies(Tail(outcomes))
    ELSE ValidLatencies(Tail(outcomes))

RECURSIVE SeqMax(_)
SeqMax(q) == IF Len(q) = 1 THEN q[1] ELSE Max(Head(q), SeqMax(Tail(q)))

RECURSIVE SeqMin(_)
SeqMin(q) == IF Len(q) = 1 THEN q[1] ELSE Min(Head(q), SeqMin(Tail(q)))

\* C6: after measure_latency the stored offset is determined by the valid
\* trials' latencies: fewer than 2, the fallback 4 x buffer_size; 2 or 3, the
\* integer average of all; 4 or more, the integer average without the
\* highest and the lowest; and on success the calibrated flag is set.
OffsetFromValidTrials ==
    h_trials # <<>> =>
        LET v == ValidLatencies(h_trials)
        IN  IF Len(v) < 2
            THEN measured_latency_samples = 4 * BufferSize
            ELSE IF Len(v) < 4
            THEN /\ measured_latency_samples = SumSeq(v) \div Len(v)
                 /\ latency_calibrated
            ELSE /\ measured_latency_samples =
                        (SumSeq(v) - SeqMax(v) - SeqMin(v)) \div (Len(v) - 2)
                 /\ latency_calibrated

\* The same, of the measurements in which no trial raised.
OffsetFromValidTrialsUnlessRaised ==
    (\A i \in 1..Len(h_trials) : h_trials[i].kind # "raise") => OffsetFromValidTrials

(***************************************************************************)
(* The recording model: arming, PLAY (which records into the armed track), *)
(* STOP and calibration on the control thread, callbacks on the audio      *)
(* thread, one handler or one callback at a time.  The microphone delivers *)
(* one channel.                                                            *)
(***************************************************************************)
\* The blocks the microphone delivers: a rising and a falling one.
RecInputs ==
    {[i \in 1..Frames |-> <<IF i = 1 THEN ONE \div 4 ELSE -(ONE \div 2)>>],
     [i \in 1..Frames |-> <<IF i = 1 THEN -(ONE \div 2) ELSE ONE \div 4>>]}

\* Calibrations whose trials all agree, and the one that fails.
RecCalibrations ==
    {[i \in 1..NumTrials |-> ShortTrial]}
        \cup {[i \in 1..NumTrials |-> ValidTrial(k)] : k \in (-1)..MaxLatency}

\* No meter shows a level or holds a peak.
MetersAtRest ==
    \A t \in Tracks : track_levels[t] = 0 /\ ~track_peaks[t]

\* The callbacks followed are those of a running transport: a playback and
\* a recording are followed for MaxRecCallbacks callbacks; and a playback is
\* started with the meters at rest, so before any track holds a recording:
\* the callbacks of this model have no track to mix.
RecInBounds ==
    /\ is_playing \/ is_recording
    /\ is_playing => h_callbacks < MaxRecCallbacks
    /\ is_recording => h_rec_callbacks < MaxRecCallbacks

\* No handler is running / no callback is running.
CtlIdle == ctl_pc = "idle"
CbIdle == cb_pc = "idle"

AudioRec ==
    \/ CtlIdle /\ \E ind \in RecInputs : RecInBounds /\ CbBegin(ind)
    \/ CtlIdle /\ CbRecord
    \/ CtlIdle /\ CbPlayCheck
    \/ CtlIdle /\ CbPlayLock
    \/ CtlIdle /\ CbFinish
    \/ CtlIdle /\ CbReturn

ControlRec ==
    \/ CbIdle /\ \E t \in Tracks : UiToggleArm(t)
    \/ CbIdle /\ \E outcomes \in RecCalibrations : MeasureLatency(outcomes)
    \/ CbIdle /\ MetersAtRest /\ UiStartPlayback
    \/ CbIdle /\ \E ok \in BOOLEAN : StartPlaybackStream(ok)
    \/ CbIdle /\ StartPlaybackLock
    \/ CbIdle /\ \E ok \in BOOLEAN : StartRecordingStream(ok)
    \/ CbIdle /\ StartRecordingFlag
    \/ CbIdle /\ StartRecordingTrack
    \/ CbIdle /\ UiStopAll
    \/ CbIdle /\ StopRecordingCheck
    \/ CbIdle /\ StopRecordingFlag
    \/ CbIdle /\ StopRecordingTake
    \/ CbIdle /\ StopRecordingStore
    \/ CbIdle /\ StopRecordingLength
    \/ CbIdle /\ \E ok \in BOOLEAN : StopRecordingSave(ok)
    \/ CbIdle /\ StopPlaybackLock

NextRec == AudioRec \/ ControlRec

SpecRec == Init /\ [][NextRec]_vars

\* C3: between callbacks of an active recording the accumulator is the
\* input received since start_recording, frame by frame in arrival order,
\* Frames samples per callback; and a callback's steps while recording is
\* inactive leave the accumulator as it is.
RecordingAppendsInput ==
    /\ []((is_recording /\ cb_pc = "idle" /\ ctl_pc = "idle") =>
            /\ recording_buffer = h_captured
            /\ Len(recording_buffer) = h_rec_callbacks * Frames)
    /\ [][(ctl_pc = "idle" /\ ctl_pc' = "idle" /\ ~is_recording
                /\ (cb_pc # "idle" \/ cb_pc' # "idle"))
            => recording_buffer' = recording_buffer]_vars

\* Two callbacks into a recording, with different samples captured.
RecordedTwoCallbacks ==
    /\ is_recording
    /\ cb_pc = "idle"
    /\ ctl_pc = "idle"
    /\ h_rec_callbacks = 2
    /\ Len(recording_buffer) = 2 * Frames
    /\ recording_buffer[1] # recording_buffer[Frames + 1]

\* What stop_recording has stored for the track it finalizes, against the
\* first `offset` samples removed from the captured buffer.
StoredIsTrimmed(offset) ==
    /\ track_data[ctl.track_num] =
            SubSeq(ctl.buffer_copy, offset + 1, Len(ctl.buffer_copy))
    /\ track_lengths[ctl.track_num] = Len(ctl.buffer_copy) - offset

KeptWhenShorterThanOffset ==
    (/\ ctl_pc = "stoprec_save"
     /\ measured_latency_samples > 0
     /\ Len(ctl.buffer_copy) < measured_latency_samples)
        => /\ ctl.track_num \in DOMAIN track_data
           /\ track_data[ctl.track_num] = ctl.buffer_copy
           /\ track_lengths[ctl.track_num] = Len(ctl.buffer_copy)

\* stop_recording has stored a recording shorter than a positive offset.
StoredShorterThanOffset ==
    /\ ctl_pc = "stoprec_save"
    /\ measured_latency_samples > 0
    /\ Len(ctl.buffer_copy) > 0
    /\ Len(ctl.buffer_copy) < measured_latency_samples
    /\ Len(track_data[ctl.track_num]) = Len(ctl.buffer_copy)

(***************************************************************************)
(* The mix settings' handlers, each a single call chain on the control     *)
(* thread.                                                                 *)
(***************************************************************************)
\* set_bpm with the lower clamp only.
ClampBpmLowOnly(b) == Max(60, b)

\* set_bpm: the clamp to 60..200.
ClampBpm(b) == Max(60, Min(200, b))

\* set_track_volume, set_metronome_volume: the clamp to [0, 1].
ClampUnit(v) == Max(0, Min(ONE, v))

\* MultitrackUI.on_volume_change (src/ui_controller.py 808-812)
UiOnVolumeChange(track_num, volume) ==
    /\ ctl_pc = "idle"
    /\ track_volumes' = (track_num :> ClampUnit(volume)) @@ track_volumes
    /\ tracks' = SetTrackVolume(tracks, track_num, volume)
    /\ UNCHANGED <<meterVars, now, pmVars, stream_active, recVars, playVars, dataVars, track_fx,
                   fx_processors, latVars, metroVars, master_volume_gain,
                   armed_track, uiVars, cbVars, ctlVars, hVars>>

\* AudioEngine.set_master_volume: the clamp to [0.001, 10].
SetMasterVolume(linear_gain) ==
    /\ ctl_pc = "idle"
    /\ master_volume_gain' = Max(ONE \div 1000, Min(10 * ONE, linear_gain))
    /\ UNCHANGED <<meterVars, now, pmVars, stream_active, recVars, playVars, dataVars, fxVars, latVars,
                   metroVars, tmVars, uiVars, cbVars, ctlVars, hVars>>

\* MultitrackUI.toggle_metronome (src/ui_controller.py 1599-1606)
UiToggleMetronome ==
    /\ ctl_pc = "idle"
    /\ metronome_enabled' = ~metronome_enabled
    /\ UNCHANGED <<meterVars, now, pmVars, stream_active, recVars, playVars, dataVars, fxVars, latVars,
                   metronome_volume, bpm, samples_per_beat, metronome_sound,
                   metronome_and_sound, master_volume_gain, tmVars, uiVars,
                   cbVars, ctlVars, hVars>>

\* MultitrackUI.on_metronome_volume_change -> set_metronome_volume
SetMetronomeVolume(volume) ==
    /\ ctl_pc = "idle"
    /\ metronome_volume' = ClampUnit(volume)
    /\ UNCHANGED <<meterVars, now, pmVars, stream_active, recVars, playVars, dataVars, fxVars, latVars,
                   metronome_enabled, bpm, samples_per_beat, metronome_sound,
                   metronome_and_sound, master_volume_gain, tmVars, uiVars,
                   cbVars, ctlVars, hVars>>

\* MultitrackUI.on_bpm_entry_change -> set_bpm
SetBpm(b) ==
    /\ ctl_pc = "idle"
    /\ bpm' = ClampBpm(b)
    /\ samples_per_beat' = CalculateMetronomeTiming(SampleRate, ClampBpm(b))
    /\ UNCHANGED <<meterVars, now, pmVars, stream_active, recVars, playVars, dataVars, fxVars, latVars,
                   metronome_enabled, metronome_volume, metronome_sound,
                   metronome_and_sound, master_volume_gain, tmVars, uiVars,
                   cbVars, ctlVars, hVars>>

(***************************************************************************)
(* Loading a project (src/ui_controller.py 1245-1262): the audio files     *)
(* replace track_data and track_lengths (load_project_audio_files), the    *)
(* saved settings are applied (apply_project_to_managers), and every       *)
(* track's has_data flag is set from has_track_data.  `project.files` maps *)
(* the tracks that have a file to its samples, already mono and at the     *)
(* engine's rate.                                                          *)
(***************************************************************************)
\* AudioEngine.has_track_data
HasTrackData(data, track_number) ==
    track_number \in DOMAIN data /\ Len(data[track_number]) > 0

UiLoadProject(project) ==
    /\ ctl_pc = "idle"
    /\ track_data' = project.files
    /\ track_lengths' = [t \in DOMAIN project.files |-> Len(project.files[t])]
    /\ track_levels' = [t \in Tracks |-> 0]
    /\ track_peaks' = [t \in Tracks |-> FALSE]
    /\ peak_hold_time' = [t \in Tracks |-> 0]
    /\ bpm' = ClampBpm(project.bpm)
    /\ samples_per_beat' = CalculateMetronomeTiming(SampleRate, ClampBpm(project.bpm))
    /\ metronome_enabled' = project.metronome_enabled
    /\ tracks' = [t \in Tracks |->
                    [is_armed |-> tracks[t].is_armed,
                     is_muted |-> project.tracks[t].is_muted,
                     volume |-> ClampUnit(project.tracks[t].volume),
                     has_data |-> HasTrackData(project.files, t),
                     name |-> project.tracks[t].name]]
    /\ track_fx' = [t \in Tracks |-> project.tracks[t].fx_type]
    /\ fx_processors' = [t \in Tracks |-> BuildProcessors(project.tracks[t].fx_type)]
    /\ track_volumes' = [t \in Tracks |-> ClampUnit(project.tracks[t].track_volume)]
    /\ UNCHANGED <<now, pmVars, stream_active, recVars, playVars, latVars, metronome_volume,
                   metronome_sound, metronome_and_sound, master_volume_gain,
                   armed_track, uiVars, cbVars, ctlVars, hVars>>

(***************************************************************************)
(* The mixing model: a project is loaded, the mix is set up, then it is    *)
(* played; one handler or one callback at a time.  The settings are        *)
(* changed, and playback starts, while the processors are as set_track_fx  *)
(* built them and the meters are at rest; the callbacks followed are the    *)
(* first MaxMixCallbacks of a playback.                                    *)
(***************************************************************************)
LongBuffer == [i \in 1..MaxTrackLen |-> IF i % 2 = 1 THEN ONE \div 2 ELSE -ONE]
ShortBuffer == <<ONE \div 4>>

MixFiles == UNION {[S -> {LongBuffer, ShortBuffer}] : S \in SUBSET Tracks}

\* What save_project writes for a track left at its defaults.
DefaultTrackSettings(t) ==
    [is_muted |-> FALSE, volume |-> ONE, fx_type |-> "none",
     track_volume |-> DefaultVolume, name |-> DefaultName(t)]

MixProjects ==
    {[files |-> f, bpm |-> 120, metronome_enabled |-> FALSE,
      tracks |-> [t \in Tracks |-> DefaultTrackSettings(t)]] : f \in MixFiles}

MixVolumes == {ONE \div 2, DefaultVolume}
MixGains == {ONE, ONE \div 2}

Stopped == ~ui_is_playing

FreshProcessors == \A t \in Tracks : fx_processors[t] = BuildProcessors(track_fx[t])

MixInBounds == is_playing /\ h_callbacks < MaxMixCallbacks

AudioMix ==
    \/ CtlIdle /\ MixInBounds /\ CbBegin(SilentInput)
    \/ CtlIdle /\ CbPlayCheck
    \/ CtlIdle /\ CbPlayLock
    \/ CtlIdle /\ CbMixLength
    \/ CtlIdle /\ CbMixTrack
    \/ CtlIdle /\ CbFinish
    \/ CtlIdle /\ CbReturn

\* The mix is set up between loading and the playback.
SettingUp == Stopped /\ FreshProcessors /\ MetersAtRest

ControlMix ==
    \/ CbIdle /\ Stopped /\ \E project \in MixProjects : UiLoadProject(project)
    \/ CbIdle /\ SettingUp /\ \E t \in Tracks, fx \in FxTypes : SetTrackFxType(t, fx)
    \/ CbIdle /\ SetTrackFxProcessors
    \/ CbIdle /\ SettingUp /\ \E t \in Tracks, v \in MixVolumes : UiOnVolumeChange(t, v)
    \/ CbIdle /\ SettingUp /\ \E t \in Tracks : UiToggleMute(t)
    \/ CbIdle /\ SettingUp /\ UiToggleMetronome
    \/ CbIdle /\ SettingUp /\ \E g \in MixGains : SetMasterVolume(g)
    \/ CbIdle /\ FreshProcessors /\ MetersAtRest /\ UiStartPlayback
    \/ CbIdle /\ \E ok \in BOOLEAN : StartPlaybackStream(ok)
    \/ CbIdle /\ StartPlaybackLock
    \/ CbIdle /\ UiStopAll
    \/ CbIdle /\ StopPlaybackLock

NextMix == AudioMix \/ ControlMix

SpecMix == Init /\ [][NextMix]_vars

\* C1: between callbacks of an uninterrupted playback the cursor is the
\* number of callbacks since start_playback times the block size.
CursorIsCallbacksTimesFrames ==
    (is_playing /\ cb_pc = "idle" /\ ctl_pc = "idle") =>
        playback_position = h_callbacks * Frames

\* Two callbacks into a playback of a project with a track.
PlayedTwoCallbacks ==
    /\ is_playing
    /\ cb_pc = "idle"
    /\ ctl_pc = "idle"
    /\ h_callbacks = 2
    /\ playback_position = 2 * Frames
    /\ GetPlayableTracks # <<>>

\* The callback that is returning was entered during playback: outdata is
\* what it mixed from the cursor h_pre.position.
ReturningFromMix == cb_pc = "return" /\ h_pre.playing

\* FX_t(volume_t x data_t[cursor + i]) for output sample i (from 1) of the
\* returning callback, 0 when track t contributes nothing to it: the track's
\* remaining samples scaled by its volume and run through the chain as it
\* stood when the callback was entered.
TrackContribution(t, i) ==
    LET cursor == h_pre.position
    IN  IF /\ tracks[t].has_data
           /\ ~tracks[t].is_muted
           /\ t \in DOMAIN track_data
           /\ cursor + (i - 1) < track_lengths[t]
        THEN LET n == Min(Len(outdata), track_lengths[t] - cursor)
                 scaled == [j \in 1..n |->
                               Mul(track_data[t][cursor + j], track_volumes[t])]
             IN  ProcessTrackFx(h_pre.processors[t], scaled).out[i]
        ELSE 0

\* The metronome's contribution to output sample i.
MetronomeContribution(i) ==
    IF metronome_enabled /\ EffectiveMetronomeVolume # 0 /\ samples_per_beat # 0
    THEN MetronomeClick(h_pre.position + (i - 1))
    ELSE 0

RECURSIVE SumOverTracks(_, _)
SumOverTracks(t, i) ==
    IF t > NumTracks THEN 0 ELSE TrackContribution(t, i) + SumOverTracks(t + 1, i)

\* C4: every output sample of a callback during playback is, in both
\* channels, master_gain x (the sum of the playable tracks' FX-processed,
\* volume-scaled samples at the cursor + the metronome's contribution); it
\* is silence when no track is playable and the metronome is off.
OutputIsMasterTimesMix ==
    ReturningFromMix =>
        /\ Len(outdata) = Frames
        /\ \A i \in 1..Len(outdata) :
              LET expected == Mul(SumOverTracks(1, i) + MetronomeContribution(i),
                                  master_volume_gain)
              IN  outdata[i] = <<expected, expected>>
        /\ (GetPlayableTracks = <<>> /\ ~metronome_enabled)
              => outdata = StereoZeros(Frames)

\* Two identical tracks at volume 0.5 without FX: the first output sample is
\* the sum of the two scaled inputs.
MixedTwoIdenticalTracks ==
    /\ ReturningFromMix
    /\ h_pre.position = 0
    /\ GetPlayableTracks = <<1, 2>>
    /\ track_data[1] = track_data[2]
    /\ track_volumes[1] = ONE \div 2
    /\ track_volumes[2] = ONE \div 2
    /\ track_fx[1] = "none"
    /\ track_fx[2] = "none"
    /\ ~metronome_enabled
    /\ master_volume_gain = ONE
    /\ outdata[1][1] = 2 * Mul(track_data[1][1], ONE \div 2)
    /\ outdata[1][1] # 0

\* A track with fewer than Frames samples left, through the studio chain,
\* with the metronome on and the master gain at 0.5.
MixedPartialTrackWithFx ==
    /\ ReturningFromMix
    /\ h_pre.position > 0
    /\ GetPlayableTracks = <<1>>
    /\ track_lengths[1] - h_pre.position \in 1..(Frames - 1)
    /\ track_fx[1] = "studio"
    /\ metronome_enabled
    /\ master_volume_gain = ONE \div 2
    /\ outdata[1][1] # 0
    /\ outdata[Frames] = <<0, 0>>

(***************************************************************************)
(* The metronome model: initialize_metronome has loaded or generated the   *)
(* regular click and the beat-1 accent, each of its own length; tempo,     *)
(* metronome switch and metronome volume change at any time between        *)
(* callbacks; an empty project is played for MaxMetroPos samples.          *)
(***************************************************************************)
Waveform(n) == [i \in 1..n |-> ONE \div (i + 1)]
AccentWaveform(n) == [i \in 1..n |-> -(ONE \div (i + 1))]

InitMetro ==
    \E n \in 1..MaxWaveLen, m \in 1..MaxWaveLen :
        InitWith(Waveform(n), AccentWaveform(m))

MetroTempos == {60, 120, 200, 240}
MetroVolumes == {0, ONE \div 2, ONE}

MetroInBounds == is_playing => playback_position + Frames <= MaxMetroPos

AudioMetro ==
    \/ CtlIdle /\ MetroInBounds /\ CbBegin(SilentInput)
    \/ CtlIdle /\ CbPlayCheck
    \/ CtlIdle /\ CbPlayLock
    \/ CtlIdle /\ CbFinish
    \/ CtlIdle /\ CbReturn

ControlMetro ==
    \/ CbIdle /\ \E b \in MetroTempos : SetBpm(b)
    \/ CbIdle /\ UiToggleMetronome
    \/ CbIdle /\ \E v \in MetroVolumes : SetMetronomeVolume(v)
    \/ CbIdle /\ UiStartPlayback
    \/ CbIdle /\ \E ok \in BOOLEAN : StartPlaybackStream(ok)
    \/ CbIdle /\ StartPlaybackLock
    \/ CbIdle /\ UiStopAll
    \/ CbIdle /\ StopPlaybackLock

NextMetro == AudioMetro \/ ControlMetro

SpecMetro == InitMetro /\ [][NextMetro]_vars

\* The click the claim prescribes at absolute position p: the applicable
\* waveform's sample at beat_position times the effective volume when
\* beat_position is within that waveform, nothing otherwise.
PrescribedClick(p) ==
    LET beat_position == p % samples_per_beat
        current_beat == ((p \div samples_per_beat) % 4) + 1
        applicable == IF current_beat = 1 THEN metronome_and_sound
                      ELSE metronome_sound
    IN  IF beat_position < Len(applicable)
        THEN Mul(applicable[beat_position + 1], EffectiveMetronomeVolume)
        ELSE 0

ClickAddedInWindow ==
    (ReturningFromMix /\ metronome_enabled /\ metronome_volume # 0) =>
        \A i \in 1..Len(outdata) :
            LET expected == Mul(SumOverTracks(1, i)
                                    + PrescribedClick(h_pre.position + (i - 1)),
                                master_volume_gain)
            IN  outdata[i] = <<expected, expected>>

\* C7: with the metronome on at a non-zero volume, every output sample at
\* position p carries the applicable waveform's click exactly when p's
\* beat_position is within that waveform (the accent on beat 1, the regular
\* click otherwise), whatever the two waveforms' lengths; and a beat at
\* BPM 120 and 44100 Hz is 22050 samples.
ClickWithinApplicableWaveform ==
    /\ ClickAddedInWindow
    /\ CalculateMetronomeTiming(44100, 120) = 22050

\* The same, of the states in which the accent is no longer than the
\* regular click.
ClickWithinWaveformUnlessAccentLonger ==
    Len(metronome_and_sound) <= Len(metronome_sound) => ClickWithinApplicableWaveform

(***************************************************************************)
(* The surface model: the handlers of the recorder's window (ARM, PLAY,    *)
(* STOP, CLR, Load Project, Recalibrate) on the control thread, callbacks  *)
(* on the audio thread, one handler step or one callback step at a time.   *)
(* A latency measurement runs on a thread of its own behind a modal popup: *)
(* while it runs the window takes no input, and callbacks go on.  The      *)
(* callbacks followed are those of a running transport, and a playback is  *)
(* started with the meters at rest.                                        *)
(***************************************************************************)
\* AudioEngine.clear_track (src/audio_engine.py 1134-1145)
EngineClearTrack(track_number) ==
    /\ track_data' = [t \in DOMAIN track_data \ {track_number} |-> track_data[t]]
    /\ track_lengths' =
            [t \in DOMAIN track_lengths \ {track_number} |-> track_lengths[t]]
    /\ track_levels' = [track_levels EXCEPT ![track_number] = 0]
    /\ track_peaks' = [track_peaks EXCEPT ![track_number] = FALSE]

\* MultitrackUI.clear_track (src/ui_controller.py 1578-1597): `result` is the
\* answer to the confirmation.
UiClearTrack(track_num, result) ==
    /\ ctl_pc = "idle"
    /\ tracks[track_num].has_data
    /\ IF result
       THEN /\ tracks' = ClearTrack(tracks, armed_track, track_num).tracks
            /\ armed_track' = ClearTrack(tracks, armed_track, track_num).armed_track
            /\ EngineClearTrack(track_num)
       ELSE UNCHANGED <<tmVars, dataVars, track_levels, track_peaks>>
    /\ UNCHANGED <<peak_hold_time, now, pmVars, stream_active, recVars, playVars, fxVars,
                   latVars, metroVars, master_volume_gain, uiVars, cbVars, ctlVars,
                   hVars>>

\* MultitrackUI.recalibrate_latency (src/ui_controller.py 814-862): the popup
\* takes the window's input and the measuring thread is started.
UiRecalibrateLatency ==
    /\ ctl_pc = "idle"
    /\ ctl_pc' = "calibrating"
    /\ UNCHANGED <<meterVars, now, pmVars, stream_active, recVars, playVars, dataVars, fxVars,
                   latVars, metroVars, master_volume_gain, tmVars, uiVars, cbVars,
                   ctl, hVars>>

\* calibration_thread (src/ui_controller.py 851-859): measure_latency, then
\* calibration_complete is handed to the window's thread.
CalibrationThread(outcomes) ==
    /\ ctl_pc = "calibrating"
    /\ measured_latency_samples' =
            MeasureLatencyResult(outcomes, latency_calibrated).samples
    /\ latency_calibrated' =
            MeasureLatencyResult(outcomes, latency_calibrated).calibrated
    /\ h_trials' = outcomes
    /\ ctl_pc' = "calibration_done"
    /\ UNCHANGED <<meterVars, now, pmVars, stream_active, recVars, playVars, dataVars, fxVars,
                   metroVars, master_volume_gain, tmVars, uiVars, cbVars, ctl,
                   h_callbacks, h_rec_callbacks, h_captured, h_pre, h_stopped>>

\* MultitrackUI.calibration_complete (src/ui_controller.py 864-871): the
\* popup is destroyed.
UiCalibrationComplete ==
    /\ ctl_pc = "calibration_done"
    /\ Return
    /\ UNCHANGED <<meterVars, now, pmVars, stream_active, recVars, playVars, dataVars, fxVars,
                   latVars, metroVars, master_volume_gain, tmVars, uiVars, cbVars,
                   hVars>>

\* The saved projects: each track has a one-sample file or none.
UiProjects ==
    {[files |-> f, bpm |-> 120, metronome_enabled |-> FALSE,
      tracks |-> [t \in Tracks |-> DefaultTrackSettings(t)]] :
        f \in UNION {[S -> {ShortBuffer}] : S \in SUBSET Tracks}}

\* The block the microphone delivers.
UiInput == [i \in 1..Frames |-> <<IF i = 1 THEN ONE \div 4 ELSE -(ONE \div 2)>>]

\* The calibrations: one that succeeds and one that fails.
UiCalibrations ==
    {[i \in 1..NumTrials |-> ShortTrial], [i \in 1..NumTrials |-> ValidTrial(1)]}

\* No handler of the window is running (a measurement may be).
BetweenHandlers == ctl_pc \in {"idle", "calibrating", "calibration_done"}

AudioUi ==
    \/ BetweenHandlers /\ RecInBounds /\ CbBegin(UiInput)
    \/ BetweenHandlers /\ CbRecord
    \/ BetweenHandlers /\ CbPlayCheck
    \/ BetweenHandlers /\ CbPlayLock
    \/ BetweenHandlers /\ CbMixLength
    \/ BetweenHandlers /\ CbMixTrack
    \/ BetweenHandlers /\ CbFinish
    \/ BetweenHandlers /\ CbReturn

ControlUi ==
    \/ CbIdle /\ \E t \in Tracks : UiToggleArm(t)
    \/ CbIdle /\ \E project \in UiProjects : UiLoadProject(project)
    \/ CbIdle /\ \E t \in Tracks, result \in BOOLEAN : UiClearTrack(t, result)
    \/ CbIdle /\ MetersAtRest /\ UiStartPlayback
    \/ CbIdle /\ \E ok \in BOOLEAN : StartPlaybackStream(ok)
    \/ CbIdle /\ StartPlaybackLock
    \/ CbIdle /\ \E ok \in BOOLEAN : StartRecordingStream(ok)
    \/ CbIdle /\ StartRecordingFlag
    \/ CbIdle /\ StartRecordingTrack
    \/ CbIdle /\ UiStopAll
    \/ CbIdle /\ StopRecordingCheck
    \/ CbIdle /\ StopRecordingFlag
    \/ CbIdle /\ StopRecordingTake
    \/ CbIdle /\ StopRecordingStore
    \/ CbIdle /\ StopRecordingLength
    \/ CbIdle /\ \E ok \in BOOLEAN : StopRecordingSave(ok)
    \/ CbIdle /\ StopPlaybackLock
    \/ CbIdle /\ UiRecalibrateLatency
    \/ CbIdle /\ \E outcomes \in UiCalibrations : CalibrationThread(outcomes)
    \/ CbIdle /\ UiCalibrationComplete

NextUi == AudioUi \/ ControlUi

SpecUi == Init /\ [][NextUi]_vars

\* C11: while a recording targets track t, t is not among the tracks the
\* callback reads and mixes: is_recording with recording_track = t implies t
\* is not in the playable set.
RecordingTrackNotPlayable ==
    (is_recording /\ recording_track # None) =>
        \A i \in 1..Len(GetPlayableTracks) : GetPlayableTracks[i] # recording_track

\* C12: a latency measurement in progress implies that neither playback nor
\* recording is active.
MeasurementExcludesTransport ==
    ctl_pc = "calibrating" => ~is_playing /\ ~is_recording

(***************************************************************************)
(* The engine model: the transport methods of AudioEngine called in any    *)
(* order by a caller of the engine, the stream restarted, settings set,    *)
(* and callbacks on the audio thread; one call or one callback step at a   *)
(* time.  A start_playback or start_recording call is three steps: the     *)
(* call, the method's body, and the return with the method's result.  The  *)
(* microphone is silent; the tracks played are those of a loaded project.  *)
(***************************************************************************)
\* A call of AudioEngine.start_playback (src/audio_engine.py 1094).
EngineStartPlaybackCall ==
    /\ ctl_pc = "idle"
    /\ ctl_pc' = "eng_play"
    /\ UNCHANGED <<meterVars, now, pmVars, stream_active, recVars, playVars, dataVars, fxVars,
                   latVars, metroVars, master_volume_gain, tmVars, uiVars, cbVars,
                   ctl, hVars>>

\* AudioEngine.start_playback (src/audio_engine.py 1094-1106): `ok` is
\* whether start_stream succeeds.
EngineStartPlayback(ok) ==
    /\ ctl_pc = "eng_play"
    /\ playback_lock = "free"
    /\ IF stream_active
       THEN UNCHANGED <<stream_active, cb_exception>>
       ELSE StartStream(ok)
    /\ IF stream_active \/ ok
       THEN /\ is_playing' = TRUE
            /\ playback_position' = 0
            /\ h_callbacks' = 0
            /\ h_stopped' = FALSE
            /\ ctl_pc' = "eng_true"
       ELSE /\ UNCHANGED <<is_playing, playback_position, h_callbacks, h_stopped>>
            /\ ctl_pc' = "eng_false"
    /\ UNCHANGED <<meterVars, now, pmVars, recVars, playback_lock, dataVars, fxVars, latVars,
                   metroVars, master_volume_gain, tmVars, uiVars, cb_pc, indata,
                   outdata, mixed_output, cb_todo, cb_samples_to_read, ctl,
                   h_rec_callbacks, h_captured, h_pre, h_trials>>

\* A call of AudioEngine.start_recording(track_number) (src/audio_engine.py 1038).
EngineStartRecordingCall(track_number) ==
    /\ ctl_pc = "idle"
    /\ ctl_pc' = "eng_rec"
    /\ ctl' = [ctl EXCEPT !.track_num = track_number]
    /\ UNCHANGED <<meterVars, now, pmVars, stream_active, recVars, playVars, dataVars, fxVars,
                   latVars, metroVars, master_volume_gain, tmVars, uiVars, cbVars,
                   hVars>>

\* start_recording with is_recording set before the stream is looked at.
EngineStartRecordingEager(ok) ==
    /\ ctl_pc = "eng_rec"
    /\ recording_lock = "free"
    /\ IF stream_active
       THEN UNCHANGED <<stream_active, cb_exception>>
       ELSE StartStream(ok)
    /\ is_recording' = TRUE
    /\ IF stream_active \/ ok
       THEN /\ recording_track' = ctl.track_num
            /\ recording_buffer' = <<>>
            /\ h_rec_callbacks' = 0
            /\ h_captured' = <<>>
            /\ ctl_pc' = "eng_true"
       ELSE /\ UNCHANGED <<recording_track, recording_buffer,
                           h_rec_callbacks, h_captured>>
            /\ ctl_pc' = "eng_false"
    /\ UNCHANGED <<meterVars, now, pmVars, recording_lock, playVars, dataVars, fxVars, latVars,
                   metroVars, master_volume_gain, tmVars, uiVars, cb_pc, indata,
                   outdata, mixed_output, cb_todo, cb_samples_to_read, ctl,
                   h_callbacks, h_pre, h_stopped, h_trials>>

\* AudioEngine.start_recording (src/audio_engine.py 1038-1050): `ok` is
\* whether start_stream succeeds.
EngineStartRecording(ok) ==
    /\ ctl_pc = "eng_rec"
    /\ recording_lock = "free"
    /\ IF stream_active
       THEN UNCHANGED <<stream_active, cb_exception>>
       ELSE StartStream(ok)
    /\ IF stream_active \/ ok
       THEN /\ is_recording' = TRUE
            /\ recording_track' = ctl.track_num
            /\ recording_buffer' = <<>>
            /\ h_rec_callbacks' = 0
            /\ h_captured' = <<>>
            /\ ctl_pc' = "eng_true"
       ELSE /\ UNCHANGED <<is_recording, recording_track, recording_buffer,
                           h_rec_callbacks, h_captured>>
            /\ ctl_pc' = "eng_false"
    /\ UNCHANGED <<meterVars, now, pmVars, recording_lock, playVars, dataVars, fxVars, latVars,
                   metroVars, master_volume_gain, tmVars, uiVars, cb_pc, indata,
                   outdata, mixed_output, cb_todo, cb_samples_to_read, ctl,
                   h_callbacks, h_pre, h_stopped, h_trials>>

\* The method returns True / False to its caller.
EngineReturn ==
    /\ ctl_pc \in {"eng_true", "eng_false"}
    /\ Return
    /\ UNCHANGED <<meterVars, now, pmVars, stream_active, recVars, playVars, dataVars, fxVars,
                   latVars, metroVars, master_volume_gain, tmVars, uiVars, cbVars,
                   hVars>>

\* AudioEngine.stop_playback (src/audio_engine.py 1114-1120)
EngineStopPlayback ==
    /\ ctl_pc = "idle"
    /\ playback_lock = "free"
    /\ is_playing' = FALSE
    /\ playback_position' = 0
    /\ h_stopped' = TRUE
    /\ UNCHANGED <<meterVars, now, pmVars, stream_active, recVars, playback_lock, dataVars,
                   fxVars, latVars, metroVars, master_volume_gain, tmVars, uiVars,
                   cbVars, ctlVars, h_callbacks, h_rec_callbacks, h_captured, h_pre,
                   h_trials>>

\* AudioEngine.stop_recording (src/audio_engine.py 1052-1092)
EngineStopRecording ==
    /\ ctl_pc = "idle"
    /\ recording_lock = "free"
    /\ is_recording
    /\ is_recording' = FALSE
    /\ recording_buffer' = <<>>
    /\ recording_track' = None
    /\ h_captured' = <<>>
    /\ h_rec_callbacks' = 0
    /\ IF Len(recording_buffer) > 0 /\ recording_track # None
       THEN LET audio_data == ApplyLatencyCompensation(recording_buffer,
                                                       measured_latency_samples)
            IN  /\ track_data' = (recording_track :> audio_data) @@ track_data
                /\ track_lengths' =
                        (recording_track :> Len(audio_data)) @@ track_lengths
       ELSE UNCHANGED dataVars
    /\ UNCHANGED <<meterVars, now, pmVars, stream_active, recording_lock, playVars, fxVars,
                   latVars, metroVars, master_volume_gain, tmVars, uiVars, cbVars,
                   ctlVars, h_callbacks, h_pre, h_stopped, h_trials>>

\* MultitrackUI.restart_audio_stream (src/ui_controller.py 1179-1199):
\* stop_stream, start_stream, and is_playing set again if it was set.
RestartAudioStream(ok) ==
    /\ ctl_pc = "idle"
    /\ StartStream(ok)
    /\ is_playing' = IF ok /\ is_playing THEN TRUE ELSE is_playing
    /\ UNCHANGED <<meterVars, now, pmVars, recVars, playback_position, playback_lock, dataVars,
                   fxVars, latVars, metroVars, master_volume_gain, tmVars, uiVars,
                   cb_pc, indata, outdata, mixed_output, cb_todo,
                   cb_samples_to_read, ctlVars, hVars>>

\* Neither playback nor recording is active, and no meter shows a level: a
\* project is loaded in such a state.
EngineAtRest == ~is_playing /\ ~is_recording /\ MetersAtRest

\* The saved projects: track 1 has a file of one quiet sample, or none has.
QuietBuffer == <<1>>
EngineProjects ==
    {[files |-> f, bpm |-> 120, metronome_enabled |-> FALSE,
      tracks |-> [t \in Tracks |-> DefaultTrackSettings(t)]] :
        f \in {<<>>, <<QuietBuffer>>}}

\* The tempos and gains set.
EngineTempos == {100, 120}
EngineGains == {ONE, ONE \div 2}

AudioEng ==
    \/ CtlIdle /\ RecInBounds /\ CbBegin(SilentInput)
    \/ CtlIdle /\ CbRecord
    \/ CtlIdle /\ CbPlayCheck
    \/ CtlIdle /\ CbPlayLock
    \/ CtlIdle /\ CbMixLength
    \/ CtlIdle /\ CbMixTrack
    \/ CtlIdle /\ CbFinish
    \/ CtlIdle /\ CbReturn

ControlEng ==
    \/ CbIdle /\ EngineAtRest /\ \E project \in EngineProjects : UiLoadProject(project)
    \/ CbIdle /\ EngineStartPlaybackCall
    \/ CbIdle /\ \E ok \in BOOLEAN : EngineStartPlayback(ok)
    \/ CbIdle /\ \E t \in Tracks : EngineStartRecordingCall(t)
    \/ CbIdle /\ \E ok \in BOOLEAN : EngineStartRecording(ok)
    \/ CbIdle /\ EngineReturn
    \/ CbIdle /\ EngineStopPlayback
    \/ CbIdle /\ EngineStopRecording
    \/ CbIdle /\ \E ok \in BOOLEAN : RestartAudioStream(ok)
    \/ CbIdle /\ \E b \in EngineTempos : SetBpm(b)
    \/ CbIdle /\ \E g \in EngineGains : SetMasterVolume(g)

NextEng == AudioEng \/ ControlEng

SpecEng == Init /\ [][NextEng]_vars

\* C13: while playback is active the cursor never decreases: a step from a
\* state with is_playing to a state with is_playing does not lower
\* playback_position, whatever engine operation takes it.
CursorMonotonicWhilePlaying ==
    [][(is_playing /\ is_playing') => playback_position' >= playback_position]_vars

\* C16: when the stream is not active and cannot be started, start_playback
\* and start_recording return False and leave is_playing, playback_position,
\* is_recording, recording_track and the accumulator as they were.
FailedStartChangesNothing ==
    [][(ctl_pc \in {"eng_play", "eng_rec"} /\ ~stream_active /\ ~stream_active')
        => /\ ctl_pc' = "eng_false"
           /\ UNCHANGED <<is_playing, playback_position, is_recording,
                          recording_track, recording_buffer>>]_vars

\* start_recording has returned False to a caller who asked for track 2 while a
\* playback and a recording into track 1 with captured samples were under way.
FailedStartDuringSession ==
    /\ ctl_pc = "eng_false"
    /\ ctl.track_num = 2
    /\ ~stream_active
    /\ is_playing
    /\ playback_position > 0
    /\ is_recording
    /\ recording_track = 1
    /\ Len(recording_buffer) > 0

(***************************************************************************)
(* The per-track methods model: a caller of the engine and of the track    *)
(* manager calls their per-track methods with any track number, one call   *)
(* at a time.  A call is two steps: the call, which binds the track number *)
(* (the local track_num), and the method's body.                           *)
(***************************************************************************)
\* The per-track methods of AudioEngine and (tm_) of TrackManager.
PerTrackMethods ==
    {"set_track_volume", "set_track_fx", "clear_track", "tm_arm_track",
     "tm_toggle_track_mute", "tm_set_track_volume", "tm_mark_track_has_data",
     "tm_clear_track"}

\* A call of `method` with track number n.
CallPerTrack(method, n) ==
    /\ ctl_pc = "idle"
    /\ ctl_pc' = method
    /\ ctl' = [ctl EXCEPT !.track_num = n]
    /\ UNCHANGED <<meterVars, now, pmVars, stream_active, recVars, playVars, dataVars, fxVars,
                   latVars, metroVars, master_volume_gain, tmVars, uiVars, cbVars,
                   hVars>>

\* What the engine's per-track methods leave alone.
EngineMethodOnly ==
    /\ Return
    /\ UNCHANGED <<now, pmVars, stream_active, recVars, playVars, latVars, metroVars,
                   master_volume_gain, tmVars, uiVars, cbVars, hVars>>

\* What the manager's methods leave alone.
ManagerMethodOnly ==
    /\ Return
    /\ UNCHANGED <<meterVars, now, pmVars, stream_active, recVars, playVars, dataVars, fxVars,
                   latVars, metroVars, master_volume_gain, uiVars, cbVars, hVars>>

\* AudioEngine.set_track_volume (src/audio_engine.py 213-215)
EngineSetTrackVolume(volume) ==
    /\ ctl_pc = "set_track_volume"
    /\ track_volumes' = (ctl.track_num :> ClampUnit(volume)) @@ track_volumes
    /\ EngineMethodOnly
    /\ UNCHANGED <<track_fx, fx_processors, dataVars, meterVars>>

\* AudioEngine.set_track_fx (src/audio_engine.py 221-241)
EngineSetTrackFx(fx_type) ==
    /\ ctl_pc = "set_track_fx"
    /\ track_fx' = (ctl.track_num :> fx_type) @@ track_fx
    /\ fx_processors' = (ctl.track_num :> BuildProcessors(fx_type)) @@ fx_processors
    /\ EngineMethodOnly
    /\ UNCHANGED <<track_volumes, dataVars, meterVars>>

\* AudioEngine.clear_track (src/audio_engine.py 1134-1145)
EngineClearTrackMethod ==
    /\ ctl_pc = "clear_track"
    /\ EngineClearTrack(ctl.track_num)
    /\ EngineMethodOnly
    /\ UNCHANGED <<fxVars, peak_hold_time>>

\* TrackManager.arm_track (src/track_manager.py 62-74)
ManagerArmTrack ==
    /\ ctl_pc = "tm_arm_track"
    /\ tracks' = ArmTrack(tracks, armed_track, ctl.track_num).tracks
    /\ armed_track' = ArmTrack(tracks, armed_track, ctl.track_num).armed_track
    /\ ManagerMethodOnly

\* TrackManager.toggle_track_mute (src/track_manager.py 91-97)
ManagerToggleTrackMute ==
    /\ ctl_pc = "tm_toggle_track_mute"
    /\ tracks' = ToggleTrackMute(tracks, ctl.track_num)
    /\ UNCHANGED armed_track
    /\ ManagerMethodOnly

\* TrackManager.set_track_volume (src/track_manager.py 99-103)
ManagerSetTrackVolume(volume) ==
    /\ ctl_pc = "tm_set_track_volume"
    /\ tracks' = SetTrackVolume(tracks, ctl.track_num, volume)
    /\ UNCHANGED armed_track
    /\ ManagerMethodOnly

\* TrackManager.mark_track_has_data (src/track_manager.py 105-108)
ManagerMarkTrackHasData(has_data) ==
    /\ ctl_pc = "tm_mark_track_has_data"
    /\ tracks' = MarkTrackHasData(tracks, ctl.track_num, has_data)
    /\ UNCHANGED armed_track
    /\ ManagerMethodOnly

\* TrackManager.clear_track (src/track_manager.py 110-122)
ManagerClearTrack ==
    /\ ctl_pc = "tm_clear_track"
    /\ tracks' = ClearTrack(tracks, armed_track, ctl.track_num).tracks
    /\ armed_track' = ClearTrack(tracks, armed_track, ctl.track_num).armed_track
    /\ ManagerMethodOnly

\* The volumes and the effects passed.
MisuseVolumes == {ONE \div 2}
MisuseFxTypes == {"compressor"}
\* The track numbers passed: the tracks and the first number past them.
MisuseTrackNumbers == 1..(NumTracks + 1)

NextMisuse ==
    \/ \E m \in PerTrackMethods, n \in MisuseTrackNumbers : CallPerTrack(m, n)
    \/ \E v \in MisuseVolumes : EngineSetTrackVolume(v)
    \/ \E fx \in MisuseFxTypes : EngineSetTrackFx(fx)
    \/ EngineClearTrackMethod
    \/ ManagerArmTrack
    \/ ManagerToggleTrackMute
    \/ \E v \in MisuseVolumes : ManagerSetTrackVolume(v)
    \/ \E d \in BOOLEAN : ManagerMarkTrackHasData(d)
    \/ ManagerClearTrack

SpecMisuse == Init /\ [][NextMisuse]_vars

\* C15: a per-track method called with a track number that is not a track
\* leaves the whole engine and track-manager state as it was: the tables of
\* per-track entries and the armed state of the tracks included.
InvalidTrackNumberIsNoOp ==
    [][(ctl_pc \in PerTrackMethods /\ ctl.track_num \notin Tracks)
        => UNCHANGED <<stream_active, recVars, playVars, dataVars, fxVars, latVars,
                       metroVars, master_volume_gain, meterVars, tmVars>>]_vars

(***************************************************************************)
(* The tempo model: set_bpm called with any integer, projects loaded whose *)
(* files hold any tempo, the metronome switched, and a playback whose      *)
(* callbacks add the click; one handler or one callback at a time.         *)
(***************************************************************************)
\* The integers passed to set_bpm: below, within and above 60..200.
TempoInputs == {-120, 0, 59, 127, 201, 5000}

\* The saved projects: no audio files, a tempo within or outside 60..200.
TempoProjects ==
    {[files |-> <<>>, bpm |-> b, metronome_enabled |-> e,
      tracks |-> [t \in Tracks |-> DefaultTrackSettings(t)]] :
        b \in {0, 90, 5000}, e \in BOOLEAN}

AudioTempo ==
    \/ CtlIdle /\ MixInBounds /\ CbBegin(SilentInput)
    \/ CtlIdle /\ CbPlayCheck
    \/ CtlIdle /\ CbPlayLock
    \/ CtlIdle /\ CbFinish
    \/ CtlIdle /\ CbReturn

ControlTempo ==
    \/ CbIdle /\ \E b \in TempoInputs : SetBpm(b)
    \/ CbIdle /\ \E project \in TempoProjects : UiLoadProject(project)
    \/ CbIdle /\ UiToggleMetronome
    \/ CbIdle /\ UiStartPlayback
    \/ CbIdle /\ \E ok \in BOOLEAN : StartPlaybackStream(ok)
    \/ CbIdle /\ StartPlaybackLock
    \/ CbIdle /\ UiStopAll
    \/ CbIdle /\ StopPlaybackLock

NextTempo == AudioTempo \/ ControlTempo

SpecTempo == Init /\ [][NextTempo]_vars

\* C18: after any set_bpm calls and project loads bpm is in 60..200 and
\* samples_per_beat is floor(sample_rate * 60 / bpm) for the current bpm, so
\* never 0; at the program's rate of 44100 and 120 BPM that is 22050.
TempoInRangeAndBeatDerived ==
    /\ bpm \in 60..200
    /\ samples_per_beat = (SampleRate * 60) \div bpm
    /\ samples_per_beat > 0
    /\ CalculateMetronomeTiming(44100, 120) = 22050

\* set_bpm was called with an integer below 60 (only such a call or such a
\* project gives 60), and a callback of a playback with the metronome on is
\* about to add the click at a position past the start.
ClickAfterClampedTempo ==
    /\ bpm = 60
    /\ metronome_enabled
    /\ is_playing
    /\ cb_pc = "mix"
    /\ playback_position > 0

(***************************************************************************)
(* Saving and loading a project (src/project_manager.py 65-154).  The      *)
(* project file is a JSON document: json.dump writes every object key and  *)
(* every scalar as JSON text, json.load reads the text back.  The document *)
(* is modelled as the tree of its keys and scalars, each in its JSON text  *)
(* (a sequence of characters): an int key n as str(n), a float in its      *)
(* shortest decimal form, a bool as true / false, a string quoted with "   *)
(* and \ escaped.  A float is a fixed-point number, an int a plain one.    *)
(***************************************************************************)
\* int(s) of a sequence of decimal digits.
DigitValue(c) == CHOOSE d \in 0..9 : Digits[d + 1] = c
RECURSIVE ParseInt(_)
ParseInt(s) == IF s = <<>> THEN 0
          ELSE ParseInt(SubSeq(s, 1, Len(s) - 1)) * 10 + DigitValue(s[Len(s)])

\* The fraction digits of m thousandths, trailing zeros dropped but one digit
\* kept: float.__repr__ writes 0.75 as 0.75 and 1.0 as 1.0.
RECURSIVE DropTrailingZeros(_)
DropTrailingZeros(s) ==
    IF Len(s) > 1 /\ s[Len(s)] = "0" THEN DropTrailingZeros(SubSeq(s, 1, Len(s) - 1))
    ELSE s

RECURSIVE PadLeft(_, _)
PadLeft(s, n) == IF Len(s) >= n THEN s ELSE PadLeft(<<"0">> \o s, n)

RECURSIVE PadRight(_, _)
PadRight(s, n) == IF Len(s) >= n THEN s ELSE PadRight(s \o <<"0">>, n)

\* The number of decimal digits ONE stands for.
FractionDigits == Len(Str(ONE)) - 1

\* json.dump of a float cut to two decimals.
JsonFloatTwoPlaces(v) ==
    Str(v \div ONE) \o <<".">> \o PadLeft(Str((v % ONE) \div (ONE \div 100)), 2)

\* json.dump of a float v >= 0 (float.__repr__).
JsonFloat(v) ==
    Str(v \div ONE) \o <<".">>
        \o DropTrailingZeros(PadLeft(Str(v % ONE), FractionDigits))

\* json.dump of an int n >= 0, and of an int key.
JsonInt(n) == Str(n)

\* json.dump of a bool.
JsonBool(b) == IF b THEN <<"t", "r", "u", "e">> ELSE <<"f", "a", "l", "s", "e">>

\* json.dump of a str: quoted, with the quote and the backslash escaped.
RECURSIVE JsonEscape(_)
JsonEscape(s) ==
    IF s = <<>> THEN <<>>
    ELSE (IF Head(s) \in {"\"", "\\"} THEN <<"\\", Head(s)>> ELSE <<Head(s)>>)
         \o JsonEscape(Tail(s))

JsonString(s) == <<"\"">> \o JsonEscape(s) \o <<"\"">>

\* json.load of a string's body: a backslash stands for the character after it.
RECURSIVE JsonUnescape(_)
JsonUnescape(s) ==
    IF s = <<>> THEN <<>>
    ELSE IF Head(s) = "\\" /\ Len(s) > 1
    THEN <<s[2]>> \o JsonUnescape(SubSeq(s, 3, Len(s)))
    ELSE <<Head(s)>> \o JsonUnescape(Tail(s))

\* json.load of a number with a decimal point.
ParseFloat(text) ==
    LET dot == CHOOSE i \in 1..Len(text) : text[i] = "."
    IN  ParseInt(SubSeq(text, 1, dot - 1)) * ONE
            + ParseInt(PadRight(SubSeq(text, dot + 1, Len(text)), FractionDigits))

\* json.load of a scalar: its type is what its text says.
JsonParse(text) ==
    IF Head(text) = "\""
    THEN JsonUnescape(SubSeq(text, 2, Len(text) - 1))
    ELSE IF text = JsonBool(TRUE) THEN TRUE
    ELSE IF text = JsonBool(FALSE) THEN FALSE
    ELSE IF \E i \in 1..Len(text) : text[i] = "." THEN ParseFloat(text)
    ELSE ParseInt(text)

\* An effect's name as a Python str, and the effect a str names.
FxName(fx_type) ==
    CASE fx_type = "none" -> <<"n", "o", "n", "e">>
      [] fx_type = "compressor" -> <<"c", "o", "m", "p", "r", "e", "s", "s", "o", "r">>
      [] fx_type = "studio" -> <<"s", "t", "u", "d", "i", "o">>
      [] fx_type = "wide_hall" -> <<"w", "i", "d", "e", "_", "h", "a", "l", "l">>

FxNamed(s) == CHOOSE fx_type \in FxTypes : FxName(fx_type) = s

\* save_project lines 72-91: the project built from the managers, its track
\* keys the ints 1..num_tracks.
ProjectOf ==
    [bpm |-> bpm,
     metronome_enabled |-> metronome_enabled,
     tracks |-> [t \in Tracks |->
        [has_data |-> HasTrackData(track_data, t),
         is_muted |-> tracks[t].is_muted,
         volume |-> tracks[t].volume,
         name |-> tracks[t].name,
         fx_type |-> FxName(IF t \in DOMAIN track_fx THEN track_fx[t] ELSE "none"),
         track_volume |-> IF t \in DOMAIN track_volumes THEN track_volumes[t]
                          ELSE DefaultVolume]]]

\* json.dump(project): every key and scalar in its JSON text.
JsonDump(project) ==
    [bpm |-> JsonInt(project.bpm),
     metronome_enabled |-> JsonBool(project.metronome_enabled),
     tracks |-> [k \in {JsonInt(t) : t \in DOMAIN project.tracks} |->
        LET track == project.tracks[ParseInt(k)]
        IN  [has_data |-> JsonBool(track.has_data),
             is_muted |-> JsonBool(track.is_muted),
             volume |-> JsonFloat(track.volume),
             name |-> JsonString(track.name),
             fx_type |-> JsonString(track.fx_type),
             track_volume |-> JsonFloat(track.track_volume)]]]

\* json.load(file): the keys stay strings, the scalars are parsed.
JsonLoad(file) ==
    [bpm |-> JsonParse(file.bpm),
     metronome_enabled |-> JsonParse(file.metronome_enabled),
     tracks |-> [k \in DOMAIN file.tracks |->
        [f \in DOMAIN file.tracks[k] |-> JsonParse(file.tracks[k][f])]]]

\* The settings the round trip is about, as the managers hold them.
Settings ==
    [bpm |-> bpm,
     metronome_enabled |-> metronome_enabled,
     tracks |-> [t \in Tracks |->
        [volume |-> tracks[t].volume,
         track_volume |-> track_volumes[t],
         fx_type |-> track_fx[t],
         is_muted |-> tracks[t].is_muted,
         name |-> tracks[t].name]]]

\* str.strip() of the blanks at both ends.
RECURSIVE StripLeft(_)
StripLeft(s) == IF s # <<>> /\ Head(s) = " " THEN StripLeft(Tail(s)) ELSE s

RECURSIVE StripRight(_)
StripRight(s) ==
    IF s # <<>> /\ s[Len(s)] = " " THEN StripRight(SubSeq(s, 1, Len(s) - 1)) ELSE s

Strip(s) == StripRight(StripLeft(s))

\* MultitrackUI.on_track_name_change (src/ui_controller.py 1039-1051)
UiOnTrackNameChange(track_num, new_name) ==
    /\ ctl_pc = "idle"
    /\ tracks' = IF Strip(new_name) # <<>>
                 THEN [tracks EXCEPT ![track_num].name = Strip(new_name)]
                 ELSE tracks
    /\ UNCHANGED <<meterVars, now, pmVars, stream_active, recVars, playVars, dataVars,
                   fxVars, latVars, metroVars, master_volume_gain, armed_track,
                   uiVars, cbVars, ctlVars, hVars>>

\* MultitrackUI.save_project (src/ui_controller.py 1201-1215) ->
\* ProjectManager.save_project (src/project_manager.py 65-106): `ok` is
\* whether the file could be opened for writing.
UiSaveProject(ok) ==
    /\ ctl_pc = "idle"
    /\ current_project' = ProjectOf
    /\ project_file' = IF ok THEN JsonDump(ProjectOf) ELSE project_file
    /\ h_saved' = IF ok THEN Settings ELSE h_saved
    /\ UNCHANGED <<meterVars, now, stream_active, recVars, playVars, dataVars, fxVars,
                   latVars, metroVars, master_volume_gain, tmVars, uiVars, cbVars,
                   ctlVars, hVars>>

\* The program is closed and started again: MultitrackRecorderApp.__init__
\* (src/main.py 25-46) builds new managers; the project file stays on disk.
RestartProgram ==
    /\ ctl_pc = "idle"
    /\ cb_pc = "idle"
    /\ stream_active' = FALSE
    /\ is_recording' = FALSE
    /\ recording_track' = None
    /\ recording_buffer' = <<>>
    /\ recording_lock' = "free"
    /\ is_playing' = FALSE
    /\ playback_position' = 0
    /\ playback_lock' = "free"
    /\ track_data' = <<>>
    /\ track_lengths' = <<>>
    /\ track_volumes' = [t \in Tracks |-> DefaultVolume]
    /\ track_fx' = [t \in Tracks |-> "none"]
    /\ fx_processors' = [t \in Tracks |-> NoProcessors]
    /\ measured_latency_samples' = 0
    /\ latency_calibrated' = FALSE
    /\ metronome_enabled' = FALSE
    /\ metronome_volume' = ONE \div 2
    /\ bpm' = 120
    /\ samples_per_beat' = CalculateMetronomeTiming(SampleRate, 120)
    /\ master_volume_gain' = ONE
    /\ track_levels' = [t \in Tracks |-> 0]
    /\ track_peaks' = [t \in Tracks |-> FALSE]
    /\ peak_hold_time' = [t \in Tracks |-> 0]
    /\ tracks' = [t \in Tracks |-> Track(t)]
    /\ armed_track' = None
    /\ current_project' = NoProject
    /\ ui_is_recording' = FALSE
    /\ ui_is_playing' = FALSE
    /\ indata' = <<>>
    /\ outdata' = <<>>
    /\ mixed_output' = <<>>
    /\ cb_todo' = <<>>
    /\ cb_samples_to_read' = 0
    /\ cb_exception' = "none"
    /\ h_callbacks' = 0
    /\ h_rec_callbacks' = 0
    /\ h_captured' = <<>>
    /\ h_pre' = NoSnapshot
    /\ h_stopped' = FALSE
    /\ h_trials' = <<>>
    /\ UNCHANGED <<now, project_file, h_saved, metronome_sound, metronome_and_sound,
                   cb_pc, ctlVars>>

\* A JSON number, true, false or a quoted string; json.load raises
\* JSONDecodeError on anything else.
IsDigits(s) == s # <<>> /\ \A i \in 1..Len(s) : \E d \in 1..10 : Digits[d] = s[i]

JsonScalarText(text) ==
    \/ text \in {JsonBool(TRUE), JsonBool(FALSE)}
    \/ Len(text) >= 2 /\ Head(text) = "\"" /\ text[Len(text)] = "\""
    \/ IsDigits(text)
    \/ \E dot \in 2..(Len(text) - 1) :
          /\ text[dot] = "."
          /\ IsDigits(SubSeq(text, 1, dot - 1))
          /\ IsDigits(SubSeq(text, dot + 1, Len(text)))

JsonDecodes(file) ==
    /\ JsonScalarText(file.bpm)
    /\ JsonScalarText(file.metronome_enabled)
    /\ \A k \in DOMAIN file.tracks : \A f \in DOMAIN file.tracks[k] :
          JsonScalarText(file.tracks[k][f])

\* on_load (src/ui_controller.py 1245-1251) -> ProjectManager.load_project
\* (src/project_manager.py 108-117), of the project file on disk: open()
\* raises when the file is missing and json.load when it is not JSON, before
\* current_project is assigned; `result` is what load_project returns.
UiLoadSelected ==
    /\ ctl_pc = "idle"
    /\ LET ok == project_file # NoFile /\ JsonDecodes(project_file)
       IN  /\ current_project' = IF ok THEN JsonLoad(project_file)
                                 ELSE current_project
           /\ ctl' = [ctl EXCEPT !.result = ok]
    /\ ctl_pc' = "load_audio"
    /\ UNCHANGED <<meterVars, now, project_file, h_saved, stream_active, recVars,
                   playVars, dataVars, fxVars, latVars, metroVars,
                   master_volume_gain, tmVars, uiVars, cbVars, hVars>>

\* The keys of the loaded project's track table that int() accepts, and the
\* key that int() turns into t.
IntKeys(project) == {k \in DOMAIN project.tracks : IsDigits(k)}
TrackKey(project, t) == CHOOSE k \in IntKeys(project) : ParseInt(k) = t
HasTrackKey(project, t) == \E k \in IntKeys(project) : ParseInt(k) = t

\* The keys apply_project_to_managers has gone through when it returns: all
\* of them, or, when int() raises ValueError on a key, the keys that come
\* before that one in the file (any of the others, the file's order being
\* what the file has).
KeysApplied(project) ==
    IF IntKeys(project) = DOMAIN project.tracks
    THEN {IntKeys(project)}
    ELSE SUBSET IntKeys(project)

\* AudioEngine.load_project_audio_files (src/audio_engine.py 1175-1254) with
\* the files found.
LoadProjectAudioFiles(files) ==
    /\ track_data' = files
    /\ track_lengths' = [t \in DOMAIN files |-> Len(files[t])]
    /\ track_levels' = [t \in Tracks |-> 0]
    /\ track_peaks' = [t \in Tracks |-> FALSE]
    /\ peak_hold_time' = [t \in Tracks |-> 0]

\* ProjectManager.apply_project_to_managers (src/project_manager.py 119-154):
\* set_bpm and set_metronome, then the tracks of the keys in `done`.
ApplyProjectToManagers(done) ==
    LET applied == {t \in Tracks : \E k \in done : ParseInt(k) = t}
        Saved(t) == current_project.tracks[TrackKey(current_project, t)]
    IN  /\ bpm' = ClampBpm(current_project.bpm)
        /\ samples_per_beat' =
                CalculateMetronomeTiming(SampleRate, ClampBpm(current_project.bpm))
        /\ metronome_enabled' = current_project.metronome_enabled
        /\ tracks' = [t \in Tracks |->
                IF t \in applied
                THEN [tracks[t] EXCEPT !.is_muted = Saved(t).is_muted,
                                       !.volume = ClampUnit(Saved(t).volume),
                                       !.name = Saved(t).name]
                ELSE tracks[t]]
        /\ track_fx' = [t \in DOMAIN track_fx \cup applied |->
                IF t \in applied THEN FxNamed(Saved(t).fx_type) ELSE track_fx[t]]
        /\ fx_processors' = [t \in DOMAIN fx_processors \cup applied |->
                IF t \in applied THEN BuildProcessors(FxNamed(Saved(t).fx_type))
                ELSE fx_processors[t]]
        /\ track_volumes' = [t \in DOMAIN track_volumes \cup applied |->
                IF t \in applied THEN ClampUnit(Saved(t).track_volume)
                ELSE track_volumes[t]]

\* on_load lines 1251-1256: when load_project returned True,
\* load_project_audio_files, then apply_project_to_managers, whose result
\* (False when it caught an exception) the handler does not look at.
LoadAudioAndApply(files) ==
    /\ ctl_pc = "load_audio"
    /\ IF ctl.result
       THEN /\ LoadProjectAudioFiles(files)
            /\ \E done \in KeysApplied(current_project) :
                  ApplyProjectToManagers(done)
            /\ ctl' = [ctl EXCEPT
                         !.result = (IntKeys(current_project)
                                        = DOMAIN current_project.tracks)]
            /\ ctl_pc' = "loaded"
       ELSE /\ Return
            /\ UNCHANGED <<dataVars, meterVars, bpm, samples_per_beat,
                           metronome_enabled, tracks, fxVars>>
    /\ UNCHANGED <<now, pmVars, stream_active, recVars, playVars, latVars,
                   metronome_volume, metronome_sound, metronome_and_sound,
                   master_volume_gain, armed_track, uiVars, cbVars, hVars>>

\* on_load lines 1258-1265 and the rest: every track's has_data flag is set
\* from has_track_data; the widgets are refreshed.
UiLoadFinish ==
    /\ ctl_pc = "loaded"
    /\ tracks' = [t \in Tracks |->
                    [tracks[t] EXCEPT !.has_data = HasTrackData(track_data, t)]]
    /\ Return
    /\ UNCHANGED <<meterVars, now, pmVars, stream_active, recVars, playVars, dataVars,
                   fxVars, latVars, metroVars, master_volume_gain, armed_track,
                   uiVars, cbVars, hVars>>

(***************************************************************************)
(* The persistence model: the settings are edited, the project is saved,   *)
(* the program is started again, and the project is loaded into its new    *)
(* managers.  The settings are edited before the project is first saved.   *)
(***************************************************************************)
\* The managers hold what their constructors gave them.
ManagersDefault ==
    /\ tracks = [t \in Tracks |-> Track(t)]
    /\ armed_track = None
    /\ track_volumes = [t \in Tracks |-> DefaultVolume]
    /\ track_fx = [t \in Tracks |-> "none"]
    /\ fx_processors = [t \in Tracks |-> NoProcessors]
    /\ bpm = 120
    /\ ~metronome_enabled

\* No project was saved yet.
Unsaved == project_file = NoFile /\ current_project = NoProject

\* The values the settings are edited to.
PersistVolumes == {ONE \div 8}
PersistFxTypes == {"compressor", "studio"}
PersistNames == {<<" ">>, <<" ", "B", "\"", "\\", "1", " ">>}
PersistTempos == {90}

NextPersist ==
    \/ Unsaved /\ \E t \in Tracks, v \in PersistVolumes : UiOnVolumeChange(t, v)
    \/ Unsaved /\ \E t \in Tracks, fx \in PersistFxTypes : SetTrackFxType(t, fx)
    \/ SetTrackFxProcessors
    \/ Unsaved /\ \E t \in Tracks : UiToggleMute(t)
    \/ Unsaved /\ \E t \in Tracks, n \in PersistNames : UiOnTrackNameChange(t, n)
    \/ Unsaved /\ \E b \in PersistTempos : SetBpm(b)
    \/ Unsaved /\ UiToggleMetronome
    \/ \E ok \in BOOLEAN : UiSaveProject(ok)
    \/ RestartProgram
    \/ ManagersDefault /\ UiLoadSelected
    \/ LoadAudioAndApply(<<>>)
    \/ UiLoadFinish

SpecPersist == Init /\ [][NextPersist]_vars

\* C14: save_project, then load_project and apply_project_to_managers on
\* managers in their default state, gives every track the volume, effect, mute
\* flag and name, and the engine the bpm and metronome flag, that were saved.
RoundTripReproducesSettings ==
    [][(ctl_pc = "load_audio" /\ ManagersDefault /\ ctl_pc' = "loaded")
        => Settings' = h_saved]_vars

\* A project whose last track has a fractional volume, an effect, the mute flag
\* and a name with a quote and a backslash, at 90 BPM with the metronome on,
\* has been applied to new managers.
LoadedEditedProject ==
    /\ ctl_pc = "loaded"
    /\ Settings = h_saved
    /\ bpm = 90
    /\ metronome_enabled
    /\ tracks[NumTracks].volume = ONE \div 8
    /\ track_volumes[NumTracks] = ONE \div 8
    /\ track_fx[NumTracks] = "studio"
    /\ tracks[NumTracks].is_muted
    /\ tracks[NumTracks].name = <<"B", "\"", "\\", "1">>

(***************************************************************************)
(* The level meters as their readers see them.                             *)
(***************************************************************************)
\* AudioEngine.get_track_level (src/audio_engine.py 894-898)
GetTrackLevel(track_num) ==
    LET level == IF track_num \in DOMAIN track_levels THEN track_levels[track_num]
                 ELSE 0
    IN  IF level > ONE \div 1000 THEN level ELSE 0

\* AudioEngine.get_track_peak (src/audio_engine.py 900-902)
GetTrackPeak(track_num) ==
    IF track_num \in DOMAIN track_peaks THEN track_peaks[track_num] ELSE FALSE

\* C19: every track's smoothed level is within [0, 1] in every reachable
\* state, so get_track_level never returns a value outside [0, 1].
LevelsWithinUnit ==
    \A t \in Tracks :
        /\ 0 <= track_levels[t] /\ track_levels[t] <= ONE
        /\ 0 <= GetTrackLevel(t) /\ GetTrackLevel(t) <= ONE


(***************************************************************************)
(* The meter model: a project whose first track holds one full-scale       *)
(* sample is loaded and played at volume 1.0, playback is stopped, and the *)
(* stream goes on calling the callback, also with the transport stopped;   *)
(* the wall clock (time.time(), in seconds) advances at any moment.  One   *)
(* handler or one callback at a time; the microphone delivers silence.     *)
(***************************************************************************)
\* A second passes on the wall clock read by update_track_level.
Tick ==
    /\ now < MaxTime
    /\ now' = now + 1
    /\ UNCHANGED <<stream_active, recVars, playVars, dataVars, fxVars, latVars, metroVars,
                   master_volume_gain, meterVars, pmVars, tmVars, uiVars, cbVars,
                   ctlVars, hVars>>

\* The saved project: track 1 has a file of one full-scale sample and plays
\* at volume 1.0 with no effect.
LoudBuffer == <<ONE>>
MeterProjects ==
    {[files |-> <<LoudBuffer>>, bpm |-> 120, metronome_enabled |-> FALSE,
      tracks |-> [t \in Tracks |->
                    [DefaultTrackSettings(t) EXCEPT !.track_volume = ONE]]]}

\* A playback is followed for MaxMixCallbacks callbacks; the callbacks of a
\* stopped transport are followed without a bound.
MeterInBounds == is_playing => h_callbacks < MaxMixCallbacks

AudioMeter ==
    \/ CtlIdle /\ MeterInBounds /\ CbBegin(SilentInput)
    \/ CtlIdle /\ CbPlayCheck
    \/ CtlIdle /\ CbPlayLock
    \/ CtlIdle /\ CbMixLength
    \/ CtlIdle /\ CbMixTrack
    \/ CtlIdle /\ CbFinish
    \/ CtlIdle /\ CbReturn

ControlMeter ==
    \/ CbIdle /\ Stopped /\ \E project \in MeterProjects : UiLoadProject(project)
    \/ CbIdle /\ UiStartPlayback
    \/ CbIdle /\ \E ok \in BOOLEAN : StartPlaybackStream(ok)
    \/ CbIdle /\ StartPlaybackLock
    \/ CbIdle /\ UiStopAll
    \/ CbIdle /\ StopPlaybackLock

NextMeter == AudioMeter \/ ControlMeter \/ Tick

SpecMeter == Init /\ [][NextMeter]_vars

\* The clock advances, and the stream keeps calling the callback and lets it
\* run to its end; the control thread acts only when the user does.
SpecMeterFair == SpecMeter /\ WF_vars(Tick) /\ WF_vars(AudioMeter)

\* The hold duration has passed since the last peak detected on the track.
HoldElapsed(t) == now - peak_hold_time[t] > PeakHoldDuration

\* C20: a peak-detected flag that is set is eventually cleared once the hold
\* duration has elapsed with no new peak detected (a new peak restarts the
\* hold), also when the track gets no further level updates because
\* playback and recording have stopped.
PeakClearedAfterHold ==
    \A t \in Tracks :
        (GetTrackPeak(t) /\ HoldElapsed(t) /\ ~is_playing /\ ~is_recording)
            ~> (~GetTrackPeak(t) \/ ~HoldElapsed(t))

(***************************************************************************)
(* The effects model: a project with one recorded track is loaded, the     *)
(* effect of a track is chosen while the transport is stopped, the project *)
(* is played for MaxMixCallbacks callbacks (which runs the track through   *)
(* its processors) and stopped, and the effect is chosen again over the    *)
(* used processors.  One handler or one callback at a time.                *)
(***************************************************************************)
FxProjects ==
    {[files |-> <<LongBuffer, ShortBuffer>>, bpm |-> 120, metronome_enabled |-> FALSE,
      tracks |-> [t \in Tracks |-> DefaultTrackSettings(t)]]}

AudioFx ==
    \/ CtlIdle /\ MixInBounds /\ CbBegin(SilentInput)
    \/ CtlIdle /\ CbPlayCheck
    \/ CtlIdle /\ CbPlayLock
    \/ CtlIdle /\ CbMixLength
    \/ CtlIdle /\ CbMixTrack
    \/ CtlIdle /\ CbFinish
    \/ CtlIdle /\ CbReturn

ControlFx ==
    \/ CbIdle /\ Stopped /\ \E project \in FxProjects : UiLoadProject(project)
    \/ CbIdle /\ Stopped /\ \E t \in Tracks, fx \in FxTypes : SetTrackFxType(t, fx)
    \/ CbIdle /\ SetTrackFxProcessors
    \/ CbIdle /\ MetersAtRest /\ UiStartPlayback
    \/ CbIdle /\ \E ok \in BOOLEAN : StartPlaybackStream(ok)
    \/ CbIdle /\ StartPlaybackLock
    \/ CbIdle /\ UiStopAll
    \/ CbIdle /\ StopPlaybackLock

NextFx == AudioFx \/ ControlFx

SpecFx == Init /\ [][NextFx]_vars

\* The reverb the claim describes for a room size: the delay times in
\* milliseconds and the wet mix.
SpecifiedDelaysMs(room_size) ==
    IF room_size > (8 * ONE) \div 10
    THEN <<89, 110, 127, 135, 220, 254>>
    ELSE <<15, 23, 35, 47>>
SpecifiedWet(room_size) ==
    IF room_size > (8 * ONE) \div 10 THEN (4 * ONE) \div 10 ELSE (5 * ONE) \div 10

ReverbAsSpecified(r, room_size) ==
    /\ r.wet = SpecifiedWet(room_size)
    /\ Len(r.delay_lines) = Len(SpecifiedDelaysMs(room_size))
    /\ \A k \in 1..Len(r.delay_lines) :
          r.delay_lines[k].len = (SpecifiedDelaysMs(room_size)[k] * 44100) \div 1000

\* The room size set_track_fx passes for an effect type with a reverb.
RoomOf(fx_type) == IF fx_type = "wide_hall" THEN (9 * ONE) \div 10 ELSE (5 * ONE) \div 10

\* set_track_fx has stored the type of track t and not yet its processors.
FxBuilding(t) == ctl_pc = "fx_build" /\ ctl.track_num = t

\* C21: a reverb constructed with room_size > 0.8 holds six delay lines
\* (0.089 ... 0.254 s) with wet mix 0.4, one constructed with room_size <= 0.8
\* four (0.015 ... 0.047 s) with wet mix 0.5: so is the reverb set_track_fx
\* constructed for a track, in every reachable state.
ReverbLinesByRoomSize ==
    \A t \in DOMAIN fx_processors :
        ("reverb" \in DOMAIN fx_processors[t] /\ ~FxBuilding(t))
            => ReverbAsSpecified(fx_processors[t]["reverb"], RoomOf(track_fx[t]))

\* The chain the claim describes for an effect type: which processors, the
\* compressor's threshold and ratio, the reverb's wet mix.
ChainAsSpecified(p, fx_type) ==
    LET comp(threshold, ratio) ==
            /\ "compressor" \in DOMAIN p
            /\ p["compressor"].threshold = threshold
            /\ p["compressor"].ratio = ratio
        reverb(wet) == "reverb" \in DOMAIN p /\ p["reverb"].wet = wet
    IN  IF fx_type = "compressor"
        THEN DOMAIN p = {"compressor"} /\ comp((5 * ONE) \div 10, 6)
        ELSE IF fx_type = "studio"
        THEN /\ DOMAIN p = {"compressor", "reverb"}
             /\ comp((6 * ONE) \div 10, 4)
             /\ reverb((25 * ONE) \div 100)
        ELSE IF fx_type = "wide_hall"
        THEN /\ DOMAIN p = {"compressor", "reverb"}
             /\ comp((7 * ONE) \div 10, 3)
             /\ reverb((4 * ONE) \div 10)
        ELSE DOMAIN p = {}

\* A block to run through a chain.
ProbeBlock == <<ONE, -(ONE \div 2)>>

\* process_track_fx gives what the compressor, then the reverb, give.
CompressorBeforeReverb(p) ==
    LET c == IF "compressor" \in DOMAIN p
             THEN CompressorProcess(p["compressor"], ProbeBlock).out
             ELSE ProbeBlock
        r == IF "reverb" \in DOMAIN p THEN ReverbProcess(p["reverb"], c).out ELSE c
    IN  ProcessTrackFx(p, ProbeBlock).out = r

\* C22: set_track_fx builds for each FX type exactly the chain described
\* (none: empty; compressor: 0.5, ratio 6; studio: 0.6, ratio 4, then a
\* reverb with wet 0.25; wide_hall: 0.7, ratio 3, then a reverb with wet
\* 0.4), and process_track_fx runs the compressor before the reverb.
FxChainByType ==
    \A t \in DOMAIN fx_processors :
        ~FxBuilding(t) =>
            /\ ChainAsSpecified(fx_processors[t], track_fx[t])
            /\ CompressorBeforeReverb(fx_processors[t])

\* A chain as its constructors leave it: compressor envelope 0, every
\* reverb delay buffer all zeros with write index 0.
FreshChain(p) ==
    /\ "compressor" \in DOMAIN p => p["compressor"].envelope = 0
    /\ "reverb" \in DOMAIN p =>
          \A k \in 1..Len(p["reverb"].delay_lines) :
              /\ p["reverb"].delay_lines[k].index = 0
              /\ \A i \in 1..Len(p["reverb"].delay_lines[k].data) :
                    p["reverb"].delay_lines[k].data[i] = 0

\* C24: set_track_fx(t, x) installs freshly constructed processors for
\* track t, whatever DSP state t held and also when x is the current type,
\* and leaves the FX type and the processors of every other track unchanged:
\* its first step stores the type of t only, its second step the fresh
\* processors of t only.
SetTrackFxInstallsFresh ==
    [][/\ (ctl_pc = "idle" /\ ctl_pc' = "fx_build") =>
            /\ fx_processors' = fx_processors
            /\ track_fx'[ctl'.track_num] = ctl'.fx_type
            /\ \A u \in Tracks \ {ctl'.track_num} : track_fx'[u] = track_fx[u]
       /\ (ctl_pc = "fx_build" /\ ctl_pc' = "idle") =>
            /\ DOMAIN fx_processors'[ctl.track_num] = PrescribedProcessors(ctl.fx_type)
            /\ FreshChain(fx_processors'[ctl.track_num])
            /\ track_fx' = track_fx
            /\ \A u \in Tracks \ {ctl.track_num} :
                  fx_processors'[u] = fx_processors[u]]_vars

\* The processors have processed audio since they were constructed.
UsedChain(p) ==
    /\ DOMAIN p = {"compressor", "reverb"}
    /\ p["compressor"].envelope > 0
    /\ p["reverb"].delay_lines[1].index > 0

\* set_track_fx(1, "studio") is replacing the studio chain of track 1 that
\* a playback has used, while the reverb of track 2 has been used too.
FxResetOverUsedChain ==
    /\ ctl_pc = "fx_build" /\ ctl.track_num = 1 /\ ctl.fx_type = "studio"
    /\ UsedChain(fx_processors[1])
    /\ fx_processors[1]["compressor"].threshold = (6 * ONE) \div 10
    /\ "reverb" \in DOMAIN fx_processors[2]
    /\ fx_processors[2]["reverb"].delay_lines[1].index > 0
    /\ ~is_playing

(***************************************************************************)
(* The compressor model: a compressor is constructed with a threshold and  *)
(* a ratio (SimpleCompressor.__init__, envelope 0) in the slot of track 1  *)
(* and blocks of audio are run through it (SimpleCompressor.process), so   *)
(* that its envelope is one that processing has produced.                  *)
(***************************************************************************)
\* Thresholds (0.02, 0.5) and ratios constructed, and the blocks processed.
CompThresholds == {(2 * ONE) \div 100, (5 * ONE) \div 10}
CompRatios == {1, 2, 6}
CompBlocks == {<<ONE>>, <<-ONE, ONE \div 2>>, <<0>>}
\* The samples whose output is looked at in each state.
CompSamples == {-ONE, -1, 0, ONE \div 2, ONE}

\* SimpleCompressor(threshold, ratio) is constructed for the slot.
ConstructCompressor(threshold, ratio) ==
    /\ fx_processors' = (1 :> [k \in {"compressor"} |-> SimpleCompressor(threshold, ratio)])
                            @@ fx_processors
    /\ UNCHANGED <<stream_active, recVars, playVars, dataVars, track_volumes, track_fx,
                   latVars, metroVars, master_volume_gain, meterVars, now, pmVars,
                   tmVars, uiVars, cbVars, ctlVars, hVars>>

\* compressor.process(audio)
CompressorProcessBlock(audio) ==
    /\ "compressor" \in DOMAIN fx_processors[1]
    /\ fx_processors' = [fx_processors EXCEPT ![1]["compressor"] =
                            CompressorProcess(@, audio).state]
    /\ UNCHANGED <<stream_active, recVars, playVars, dataVars, track_volumes, track_fx,
                   latVars, metroVars, master_volume_gain, meterVars, now, pmVars,
                   tmVars, uiVars, cbVars, ctlVars, hVars>>

NextComp ==
    \/ \E threshold \in CompThresholds, ratio \in CompRatios :
          ConstructCompressor(threshold, ratio)
    \/ \E audio \in CompBlocks : CompressorProcessBlock(audio)

SpecComp == Init /\ [][NextComp]_vars

\* What the compressor c does with the next sample x: the envelope it moves
\* to, the gain it applies, the output.
NextEnvelope(c, x) == CompressorProcess(c, <<x>>).state.envelope
NextOutput(c, x) == CompressorProcess(c, <<x>>).out[1]

\* makeup_gain = 1 + (1 - 1/ratio) * threshold, to the model's rounding.
MakeupAsSpecified(c) ==
    Abs(MakeupGain(c) * c.ratio - (c.ratio * ONE + (c.ratio - 1) * c.threshold)) <= c.ratio

\* |output| <= |input| * makeup_gain; gain 1 at or below the threshold;
\* above it the gain is within (0, 1] and non-increasing in the envelope.
CompressorBounded(c) ==
    /\ MakeupAsSpecified(c)
    /\ \A x \in CompSamples :
          /\ Abs(NextOutput(c, x)) <= Mul(Abs(x), MakeupGain(c))
          /\ NextEnvelope(c, x) <= c.threshold
                => CompressorGain(c, NextEnvelope(c, x)) = ONE
          /\ NextEnvelope(c, x) > c.threshold
                => /\ CompressorGain(c, NextEnvelope(c, x)) > 0
                   /\ CompressorGain(c, NextEnvelope(c, x)) <= ONE
    /\ \A e \in (c.threshold + 1)..(ONE - 1) :
          CompressorGain(c, e + 1) <= CompressorGain(c, e)

\* Above the threshold the gain is strictly below 1.
StrictReduction(c) ==
    \A x \in CompSamples :
        NextEnvelope(c, x) > c.threshold => CompressorGain(c, NextEnvelope(c, x)) < ONE

\* Above the threshold the gain is exactly 1.
NoReduction(c) ==
    \A x \in CompSamples :
        NextEnvelope(c, x) > c.threshold => CompressorGain(c, NextEnvelope(c, x)) = ONE

\* C23 as stated: for every threshold > 0 and every ratio >= 1 each output
\* satisfies |output| <= |input| * makeup_gain, the gain is 1 at or below
\* the threshold, and above it strictly less than 1, greater than 0 and
\* non-increasing as the envelope grows.
CompressorGainStrictForAllRatios ==
    "compressor" \in DOMAIN fx_processors[1] =>
        LET c == fx_processors[1]["compressor"]
        IN  CompressorBounded(c) /\ StrictReduction(c)

\* C23: for every threshold > 0 and every ratio >= 1 each output satisfies
\* |output| <= |input| * makeup_gain, the gain is 1 at or below the
\* threshold, and above it greater than 0 and non-increasing as the envelope
\* grows; it is strictly less than 1 above the threshold when ratio > 1, and
\* exactly 1 when ratio = 1.
CompressorGainReduction ==
    "compressor" \in DOMAIN fx_processors[1] =>
        LET c == fx_processors[1]["compressor"]
        IN  /\ CompressorBounded(c)
            /\ c.ratio > 1 => StrictReduction(c)
            /\ c.ratio = 1 => NoReduction(c)

\* A compressor of ratio 6 whose envelope processing has driven above the
\* threshold 0.5, reducing the gain.
CompressorReducing ==
    /\ "compressor" \in DOMAIN fx_processors[1]
    /\ fx_processors[1]["compressor"].ratio = 6
    /\ fx_processors[1]["compressor"].threshold = (5 * ONE) \div 10
    /\ fx_processors[1]["compressor"].envelope > (5 * ONE) \div 10
    /\ CompressorGain(fx_processors[1]["compressor"],
                      fx_processors[1]["compressor"].envelope) < ONE


(***************************************************************************)
(* The recording session outside start_recording .. stop_recording.        *)
(***************************************************************************)
\* No handler and no callback is under way.
Quiescent == ctl_pc = "idle" /\ cb_pc = "idle"

\* C25: whenever is_recording is false and neither thread is inside a
\* handler or a callback, there is no recording session: recording_track is
\* None and the recording accumulator is empty (under every interleaving of
\* audio_callback with stop_recording and clear_all_project_data).
NoSessionWhenNotRecording ==
    (Quiescent /\ ~is_recording) =>
        (recording_track = None /\ recording_buffer = <<>>)


(***************************************************************************)
(* Loading a project that cannot be loaded: the project file is deleted,   *)
(* or replaced by text that is not JSON, or by a JSON document whose track *)
(* table has a key that is not a number (a hand-edited file).              *)
(***************************************************************************)
\* Text json.load rejects: the number 9O, written with the letter O.
CorruptFile ==
    [bpm |-> <<"9", "O">>, metronome_enabled |-> JsonBool(TRUE),
     tracks |-> [k \in {} |-> <<>>]]

\* The saved document with one more entry in its track table, under the key
\* "x".
MalformedFile(file) ==
    [file EXCEPT !.tracks = (<<"x">> :> file.tracks[JsonInt(1)]) @@ file.tracks]

Malformed(project) == IntKeys(project) # DOMAIN project.tracks

\* The file on disk is edited or deleted outside the program.
FileEdited ==
    /\ ctl_pc = "idle"
    /\ project_file # NoFile
    /\ JsonDecodes(project_file)
    /\ ~Malformed(project_file)
    /\ project_file' \in {CorruptFile, MalformedFile(project_file)}
    /\ UNCHANGED <<meterVars, now, current_project, h_saved, stream_active, recVars,
                   playVars, dataVars, fxVars, latVars, metroVars,
                   master_volume_gain, tmVars, uiVars, cbVars, ctlVars, hVars>>

FileDeleted ==
    /\ ctl_pc = "idle"
    /\ project_file # NoFile
    /\ project_file' = NoFile
    /\ UNCHANGED <<meterVars, now, current_project, h_saved, stream_active, recVars,
                   playVars, dataVars, fxVars, latVars, metroVars,
                   master_volume_gain, tmVars, uiVars, cbVars, ctlVars, hVars>>

NextLoad ==
    \/ Unsaved /\ \E t \in Tracks, v \in PersistVolumes : UiOnVolumeChange(t, v)
    \/ Unsaved /\ \E t \in Tracks, fx \in PersistFxTypes : SetTrackFxType(t, fx)
    \/ SetTrackFxProcessors
    \/ Unsaved /\ \E t \in Tracks : UiToggleMute(t)
    \/ Unsaved /\ \E b \in PersistTempos : SetBpm(b)
    \/ Unsaved /\ UiToggleMetronome
    \/ UiSaveProject(TRUE)
    \/ RestartProgram
    \/ FileEdited
    \/ FileDeleted
    \/ UiLoadSelected
    \/ LoadAudioAndApply(<<>>)
    \/ UiLoadFinish

SpecLoad == Init /\ [][NextLoad]_vars

\* The state a load replaces: the project record, the tempo, the metronome
\* flag, and every track's mute flag, volume, name and effect.
EffectiveState == [current_project |-> current_project, settings |-> Settings]

\* C26: a load that fails is as if there were no such project: when
\* load_project fails on a missing or corrupt file it returns False, when
\* apply_project_to_managers rejects a malformed record it returns False, and
\* in both cases current_project, bpm, the metronome flag and every track's
\* mute, volume, name and effect type are what they were before.
FailedLoadChangesNothing ==
    [][/\ (ctl_pc = "idle" /\ ctl_pc' = "load_audio"
              /\ (project_file = NoFile \/ ~JsonDecodes(project_file)))
            => (~ctl'.result /\ EffectiveState' = EffectiveState)
       /\ (ctl_pc = "load_audio" /\ ctl_pc' = "loaded" /\ Malformed(current_project))
            => (~ctl'.result /\ EffectiveState' = EffectiveState)]_vars

\* The part of C26 about load_project alone.
FailedLoadProjectChangesNothing ==
    [][(ctl_pc = "idle" /\ ctl_pc' = "load_audio"
              /\ (project_file = NoFile \/ ~JsonDecodes(project_file)))
            => (~ctl'.result /\ EffectiveState' = EffectiveState)]_vars


(***************************************************************************)
(* The two track tables (track_data, track_lengths) as the mixing loop of  *)
(* the callback reads them while a handler on the control thread rewrites  *)
(* them.  Each write to one of the tables is a step of its own: none is    *)
(* made under playback_lock.  The project's settings are applied in one    *)
(* step.                                                                   *)
(***************************************************************************)
\* The handler's loop over the tracks goes on to the next track or ends.
LoadNextTrack ==
    IF ctl.i < NumTracks
    THEN /\ ctl' = [ctl EXCEPT !.i = ctl.i + 1]
         /\ ctl_pc' = "ld_data"
    ELSE /\ ctl_pc' = "ld_apply"
         /\ UNCHANGED ctl

\* on_load (src/ui_controller.py 1245-1253) -> load_project_audio_files,
\* line 1179: track_data.clear().
UiLoadClearData(project) ==
    /\ ctl_pc = "idle"
    /\ track_data' = <<>>
    /\ ctl' = [ctl EXCEPT !.project = project, !.i = 1]
    /\ ctl_pc' = "ld_lengths"
    /\ UNCHANGED <<meterVars, now, pmVars, stream_active, recVars, playVars,
                   track_lengths, fxVars, latVars, metroVars, master_volume_gain,
                   tmVars, uiVars, cbVars, hVars>>

\* load_project_audio_files, lines 1180-1186: track_lengths.clear(), the
\* meters reset.
LoadClearLengths ==
    /\ ctl_pc = "ld_lengths"
    /\ track_lengths' = <<>>
    /\ track_levels' = [t \in Tracks |-> 0]
    /\ track_peaks' = [t \in Tracks |-> FALSE]
    /\ peak_hold_time' = [t \in Tracks |-> 0]
    /\ ctl_pc' = "ld_data"
    /\ UNCHANGED <<now, pmVars, stream_active, recVars, playVars, track_data, fxVars,
                   latVars, metroVars, master_volume_gain, tmVars, uiVars, cbVars,
                   ctl, hVars>>

\* load_project_audio_files, lines 1201-1244 for track i: when the track has
\* a file, its samples are stored in track_data.
LoadStoreData ==
    /\ ctl_pc = "ld_data"
    /\ IF ctl.i \in DOMAIN ctl.project.files
       THEN /\ track_data' = (ctl.i :> ctl.project.files[ctl.i]) @@ track_data
            /\ ctl_pc' = "ld_length"
            /\ UNCHANGED ctl
       ELSE /\ LoadNextTrack
            /\ UNCHANGED track_data
    /\ UNCHANGED <<meterVars, now, pmVars, stream_active, recVars, playVars,
                   track_lengths, fxVars, latVars, metroVars, master_volume_gain,
                   tmVars, uiVars, cbVars, hVars>>

\* load_project_audio_files, line 1245 for track i.
LoadStoreLength ==
    /\ ctl_pc = "ld_length"
    /\ track_lengths' = (ctl.i :> Len(ctl.project.files[ctl.i])) @@ track_lengths
    /\ LoadNextTrack
    /\ UNCHANGED <<meterVars, now, pmVars, stream_active, recVars, playVars, track_data,
                   fxVars, latVars, metroVars, master_volume_gain, tmVars, uiVars,
                   cbVars, hVars>>

\* on_load lines 1256-1265: apply_project_to_managers, then every track's
\* has_data flag is set from has_track_data.
LoadApplySettings ==
    /\ ctl_pc = "ld_apply"
    /\ LET project == ctl.project
       IN  /\ bpm' = ClampBpm(project.bpm)
           /\ samples_per_beat' =
                   CalculateMetronomeTiming(SampleRate, ClampBpm(project.bpm))
           /\ metronome_enabled' = project.metronome_enabled
           /\ tracks' = [t \in Tracks |->
                           [is_armed |-> tracks[t].is_armed,
                            is_muted |-> project.tracks[t].is_muted,
                            volume |-> ClampUnit(project.tracks[t].volume),
                            has_data |-> HasTrackData(track_data, t),
                            name |-> project.tracks[t].name]]
           /\ track_fx' = [t \in Tracks |-> project.tracks[t].fx_type]
           /\ fx_processors' =
                   [t \in Tracks |-> BuildProcessors(project.tracks[t].fx_type)]
           /\ track_volumes' =
                   [t \in Tracks |-> ClampUnit(project.tracks[t].track_volume)]
    /\ Return
    /\ UNCHANGED <<meterVars, now, pmVars, stream_active, recVars, playVars, dataVars,
                   latVars, metronome_volume, metronome_sound, metronome_and_sound,
                   master_volume_gain, armed_track, uiVars, cbVars, hVars>>

\* MultitrackUI.clear_track (src/ui_controller.py 1578-1589), confirmed:
\* TrackManager.clear_track, then AudioEngine.clear_track line 1136-1137,
\* the track's entry in track_data deleted.
UiClearTrackData(track_num) ==
    /\ ctl_pc = "idle"
    /\ tracks[track_num].has_data
    /\ tracks' = ClearTrack(tracks, armed_track, track_num).tracks
    /\ armed_track' = ClearTrack(tracks, armed_track, track_num).armed_track
    /\ track_data' = [t \in DOMAIN track_data \ {track_num} |-> track_data[t]]
    /\ ctl' = [ctl EXCEPT !.track_num = track_num]
    /\ ctl_pc' = "clr_length"
    /\ UNCHANGED <<meterVars, now, pmVars, stream_active, recVars, playVars,
                   track_lengths, fxVars, latVars, metroVars, master_volume_gain,
                   uiVars, cbVars, hVars>>

\* AudioEngine.clear_track, lines 1138-1144: the entry in track_lengths
\* deleted, the track's meter reset.
ClearTrackLength ==
    /\ ctl_pc = "clr_length"
    /\ track_lengths' =
            [t \in DOMAIN track_lengths \ {ctl.track_num} |-> track_lengths[t]]
    /\ track_levels' = [track_levels EXCEPT ![ctl.track_num] = 0]
    /\ track_peaks' = [track_peaks EXCEPT ![ctl.track_num] = FALSE]
    /\ Return
    /\ UNCHANGED <<peak_hold_time, now, pmVars, stream_active, recVars, playVars,
                   track_data, fxVars, latVars, metroVars, master_volume_gain,
                   tmVars, uiVars, cbVars, hVars>>

\* Takes of silence, one and MaxTrackLen samples long.
SilentTake(n) == [i \in 1..n |-> 0]

TableProjects ==
    {[files |-> f, bpm |-> 120, metronome_enabled |-> FALSE,
      tracks |-> [t \in Tracks |-> DefaultTrackSettings(t)]] :
        f \in {(1 :> SilentTake(1)),
               (1 :> SilentTake(MaxTrackLen)) @@ (2 :> SilentTake(1))}}

AudioTables ==
    \/ CallbackInBounds /\ CbBegin(SilentInput)
    \/ CbPlayCheck
    \/ CbPlayLock
    \/ CbMixLength
    \/ CbMixTrack
    \/ CbFinish
    \/ CbReturn

ControlTables ==
    \/ \E project \in TableProjects : UiLoadClearData(project)
    \/ LoadClearLengths
    \/ LoadStoreData
    \/ LoadStoreLength
    \/ LoadApplySettings
    \/ \E t \in Tracks : UiClearTrackData(t)
    \/ ClearTrackLength
    \/ UiStartPlayback
    \/ \E ok \in BOOLEAN : StartPlaybackStream(ok)
    \/ StartPlaybackLock
    \/ UiStopAll
    \/ StopPlaybackLock
    \/ UiNewProject
    \/ ClearTrackData
    \/ ClearTrackLengths
    \/ ClearFxType
    \/ ClearFxProcessors
    \/ ClearStopPlayback
    \/ ClearRecordingFlag

NextTables == AudioTables \/ ControlTables

SpecTables == Init /\ [][NextTables]_vars

\* The callback is at the head of its loop over the playable tracks (line
\* 792) with track t next.
CallbackLooksUp(t) == cb_pc = "mix" /\ cb_todo # <<>> /\ Head(cb_todo) = t

\* C27: whenever audio_callback finds track t in track_data it also finds
\* track_lengths[t], and track_lengths[t] is the length of track_data[t],
\* under every interleaving of the callback with the control thread's
\* handlers.
TrackTablesConsistentForCallback ==
    \A t \in Tracks :
        (CallbackLooksUp(t) /\ t \in DOMAIN track_data) =>
            /\ t \in DOMAIN track_lengths
            /\ track_lengths[t] = Len(track_data[t])


(***************************************************************************)
(* The has_data flags of the track manager against the engine's track      *)
(* table: ARM, PLAY, STOP and CLR on the window, the recording's file      *)
(* always written, the microphone silent; one handler step or one callback *)
(* step at a time.                                                         *)
(***************************************************************************)
AudioData ==
    \/ CtlIdle /\ RecInBounds /\ CbBegin(SilentInput)
    \/ CtlIdle /\ CbRecord
    \/ CtlIdle /\ CbPlayCheck
    \/ CtlIdle /\ CbPlayLock
    \/ CtlIdle /\ CbMixLength
    \/ CtlIdle /\ CbMixTrack
    \/ CtlIdle /\ CbFinish
    \/ CtlIdle /\ CbReturn

ControlData ==
    \/ CbIdle /\ \E t \in Tracks : UiToggleArm(t)
    \/ CbIdle /\ \E t \in Tracks, result \in BOOLEAN : UiClearTrack(t, result)
    \/ CbIdle /\ UiStartPlayback
    \/ CbIdle /\ \E ok \in BOOLEAN : StartPlaybackStream(ok)
    \/ CbIdle /\ StartPlaybackLock
    \/ CbIdle /\ \E ok \in BOOLEAN : StartRecordingStream(ok)
    \/ CbIdle /\ StartRecordingFlag
    \/ CbIdle /\ StartRecordingTrack
    \/ CbIdle /\ UiStopAll
    \/ CbIdle /\ StopRecordingCheck
    \/ CbIdle /\ StopRecordingFlag
    \/ CbIdle /\ StopRecordingTake
    \/ CbIdle /\ StopRecordingStore
    \/ CbIdle /\ StopRecordingLength
    \/ CbIdle /\ StopRecordingSave(TRUE)
    \/ CbIdle /\ StopPlaybackLock

NextData == AudioData \/ ControlData

SpecData == Init /\ [][NextData]_vars

\* C28: after every sequence of toggle_arm, start_playback, stop_all and
\* clear_track in which the file writes succeed, each track's has_data flag
\* in the track manager equals the engine's has_track_data for that track (so
\* after stop_all the track marked is the track recorded into, whatever was
\* armed or disarmed during the recording).
HasDataFlagsMatchEngine ==
    ctl_pc = "idle" =>
        \A t \in Tracks : tracks[t].has_data = HasTrackData(track_data, t)


(***************************************************************************)
(* Export of the mixdown (src/audio_engine.py 904-989), started from the   *)
(* window (src/ui_controller.py 881-925) on a worker thread behind a modal *)
(* progress window.                                                        *)
(***************************************************************************)
\* Lines 915-920: the tracks that have data and are not muted, in order.
RECURSIVE ExportPlayableFrom(_)
ExportPlayableFrom(t) ==
    IF t > NumTracks THEN <<>>
    ELSE (IF HasTrackData(track_data, t) /\ ~tracks[t].is_muted THEN <<t>> ELSE <<>>)
         \o ExportPlayableFrom(t + 1)

\* Lines 921-922: the length of the longest of them (track_lengths.get(t, 0)).
RECURSIVE ExportMaxLength(_)
ExportMaxLength(todo) ==
    IF todo = <<>> THEN 0
    ELSE Max(IF Head(todo) \in DOMAIN track_lengths THEN track_lengths[Head(todo)]
             ELSE 0,
             ExportMaxLength(Tail(todo)))

\* Lines 934-948: each track in turn is scaled by its volume, run through
\* process_track_fx (the track's processors in self.fx_processors) and added
\* to both channels of the mixdown.
RECURSIVE ExportMix(_, _, _)
ExportMix(todo, processors, mixdown) ==
    IF todo = <<>> THEN [mixdown |-> mixdown, processors |-> processors]
    ELSE LET track_num == Head(todo)
             scaled == [i \in 1..Len(track_data[track_num]) |->
                           Mul(track_data[track_num][i], track_volumes[track_num])]
             fx == ProcessTrackFx(processors[track_num], scaled)
         IN  ExportMix(Tail(todo),
                       [processors EXCEPT ![track_num] = fx.state],
                       MixInto(mixdown, fx.out))

\* Lines 952-956: scaled down to a peak of 0.95 when it is above.
ExportNormalize(mixdown) ==
    LET max_level == MaxAbs(Flatten(mixdown))
        normalization_factor == DivT(((95 * ONE) \div 100) * ONE, max_level)
    IN  IF max_level > (95 * ONE) \div 100
        THEN [i \in 1..Len(mixdown) |->
                 <<Mul(mixdown[i][1], normalization_factor),
                   Mul(mixdown[i][2], normalization_factor)>>]
        ELSE mixdown

\* What export_mixdown_mp3 would write, and leave in fx_processors, when run
\* in this state.
ExportResult ==
    LET playable == ExportPlayableFrom(1)
        mixed == ExportMix(playable, fx_processors,
                           StereoZeros(ExportMaxLength(playable)))
    IN  [mixdown |-> ExportNormalize(mixed.mixdown), processors |-> mixed.processors]

\* MultitrackUI.export_mixdown: nothing to do unless a track has data;
\* otherwise the progress window takes the input and the thread is started.
UiExportMixdown ==
    /\ ctl_pc = "idle"
    /\ \E t \in Tracks : tracks[t].has_data
    /\ ctl_pc' = "exporting"
    /\ UNCHANGED <<meterVars, now, pmVars, stream_active, recVars, playVars, dataVars,
                   fxVars, latVars, metroVars, master_volume_gain, tmVars, uiVars,
                   cbVars, ctl, hVars>>

\* export_thread: AudioEngine.export_mixdown_mp3.
ExportThread ==
    /\ ctl_pc = "exporting"
    /\ fx_processors' = IF ExportMaxLength(ExportPlayableFrom(1)) = 0
                        THEN fx_processors
                        ELSE ExportResult.processors
    /\ ctl_pc' = "export_done"
    /\ UNCHANGED <<meterVars, now, pmVars, stream_active, recVars, playVars, dataVars,
                   track_volumes, track_fx, latVars, metroVars, master_volume_gain,
                   tmVars, uiVars, cbVars, ctl, hVars>>

\* MultitrackUI.export_complete (src/ui_controller.py 927-937).
UiExportComplete ==
    /\ ctl_pc = "export_done"
    /\ Return
    /\ UNCHANGED <<meterVars, now, pmVars, stream_active, recVars, playVars, dataVars,
                   fxVars, latVars, metroVars, master_volume_gain, tmVars, uiVars,
                   cbVars, hVars>>

(***************************************************************************)
(* The export model: the effects model with the export.  An export is      *)
(* started while the transport is stopped, over processors as set_track_fx *)
(* built them; the playback that follows runs over what the export left.   *)
(***************************************************************************)
NextExport ==
    \/ CtlIdle /\ MixInBounds /\ CbBegin(SilentInput)
    \/ CtlIdle /\ CbPlayCheck
    \/ CtlIdle /\ CbPlayLock
    \/ CtlIdle /\ CbMixLength
    \/ CtlIdle /\ CbMixTrack
    \/ CtlIdle /\ CbFinish
    \/ CtlIdle /\ CbReturn
    \/ CbIdle /\ Stopped /\ \E project \in FxProjects : UiLoadProject(project)
    \/ CbIdle /\ Stopped /\ \E t \in Tracks, fx \in {"none", "compressor", "studio"} :
          SetTrackFxType(t, fx)
    \/ CbIdle /\ SetTrackFxProcessors
    \/ CbIdle /\ MetersAtRest /\ UiStartPlayback
    \/ CbIdle /\ \E ok \in BOOLEAN : StartPlaybackStream(ok)
    \/ CbIdle /\ StartPlaybackLock
    \/ CbIdle /\ UiStopAll
    \/ CbIdle /\ StopPlaybackLock
    \/ CbIdle /\ SettingUp /\ UiExportMixdown
    \/ CbIdle /\ ExportThread
    \/ CbIdle /\ UiExportComplete

SpecExport == Init /\ [][NextExport]_vars

\* C29: export_mixdown_mp3 does not modify the state the playback path
\* uses: the tracks' FX processor state, the track data, the volumes and the
\* playback cursor are the same after an export as before it, so a second
\* export from the state it leaves would produce the same mixdown.
ExportLeavesPlaybackState ==
    [][(ctl_pc = "exporting" /\ ctl_pc' = "export_done") =>
           /\ fx_processors' = fx_processors
           /\ track_data' = track_data
           /\ track_lengths' = track_lengths
           /\ track_volumes' = track_volumes
           /\ playback_position' = playback_position
           /\ ExportResult'.mixdown = ExportResult.mixdown]_vars


(***************************************************************************)
(* The armed-track pointer against the per-track armed flags.              *)
(***************************************************************************)
\* TrackManager.get_armed_track (src/track_manager.py 87-89)
GetArmedTrack == armed_track

\* C30: after any sequence of arm_track, disarm_all_tracks, clear_track and
\* reset_all_tracks calls with any track numbers, get_armed_track() returns n
\* exactly when track n has is_armed = true, and returns None exactly when no
\* track is armed.
ArmedPointerMatchesFlags ==
    /\ \A n \in Tracks : (GetArmedTrack = n) <=> tracks[n].is_armed
    /\ (GetArmedTrack = None) <=> (\A n \in Tracks : ~tracks[n].is_armed)

=============================================================================
